---- MODULE Spec2Model ----
(***************************************************************************)
(* A model of the map generator: the tile/edge grid (GameMap), the maze    *)
(* carver, the room grower, the cluster analysis and repair, the edge      *)
(* classifier, the trap placer, the removal of isolated corridors, the     *)
(* secret corridors, the stages of generateMap and the seeded generator.   *)
(* Every operation is translated from the TypeScript source; a random draw *)
(* is a nondeterministic choice over the indices the draw can yield,       *)
(* except where the generator itself is modelled (SpecRng, SpecSeeded).    *)
(***************************************************************************)
EXTENDS Integers, Sequences, FiniteSets, TLC

VARIABLES
  map,        \* the GameMap being built: [tiles, edges]
  args,       \* the arguments of the running call
  pc,         \* position of the running call
  stack,      \* generateMaze: the backtracking stack of lattice points
  links,      \* generateMaze: number of connecting corridors carved so far
  map0,       \* the GameMap the running call was given
  points,     \* growRoom: the frontier array, as a multiset (point -> copies)
  roomTiles,  \* growRoom: the tiles converted by the growth loop, in order
  size,       \* growRoom: number of tiles converted by the growth loop
  iteration,  \* growRoom, connectClusters: iterations of the loop so far
  clusters,   \* connectClusters: the list of clusters, each a set of points
  returned,   \* generateMap: the value the last stage returned; random(): the value returned
  state,      \* SeedableRNG.state of rng, the module's generator
  twin        \* a second run of generateMaze: [map, stack, state, pc]

vars == <<map, args, pc, stack, links, map0, points, roomTiles, size, iteration,
          clusters, returned, state, twin>>

mazeVars == <<stack, links>>
rngVars == <<state, twin>>
roomVars == <<map0, points, roomTiles, size, iteration>>
\* the variables generateMaze, growRoom, connectClusters have no use for
notMaze == <<roomVars, clusters, returned, rngVars>>
notRoom == <<mazeVars, clusters, returned, rngVars>>
notClusters == <<mazeVars, points, roomTiles, size, returned, rngVars>>
\* the variables createEdgesBetweenTiles and placeTraps have no use for
notTiles == <<mazeVars, points, roomTiles, size, iteration, clusters, returned, rngVars>>

\* the value of a variable the running operation does not use
Unused == <<>>

-----------------------------------------------------------------------------
(* Bounds of the model *)

\* generateMaze is called with width, height in 1..MaxMazeDim
MaxMazeDim == 2

\* growRoom is called on grids of RoomGridW x RoomGridH tiles, of which at most
\* MaxCorridorTiles are corridors, with maxSize in 0..MaxRoomSize
RoomGridW == 3
RoomGridH == 3
MaxCorridorTiles == 2
MaxRoomSize == 2

-----------------------------------------------------------------------------
(* types.ts *)

WALL == "WALL"
CORRIDOR == "CORRIDOR"
SECRET_CORRIDOR == "SECRET_CORRIDOR"
ROOM == "ROOM"
ROOM_ORIGIN == "ROOM_ORIGIN"
TRAP_PITFALL == "TRAP_PITFALL"

ROOM_WALL == "ROOM_WALL"
HIDDEN_DOOR == "HIDDEN_DOOR"
REINFORCED_DOOR == "REINFORCED_DOOR"
EMBRASURE == "EMBRASURE"
\* the value read from an edge slot that was never set (or was set to undefined)
Undefined == "undefined"

TOP == "top"
RIGHT == "right"
BOTTOM == "bottom"
LEFT == "left"
ALL_DIRECTIONS_TYPES == {TOP, RIGHT, BOTTOM, LEFT}

Point(x, y) == [x |-> x, y |-> y]

-----------------------------------------------------------------------------
(* common.ts *)

Min(a, b) == IF a < b THEN a ELSE b
Max(a, b) == IF a > b THEN a ELSE b

\* map.tiles.length and map.tiles[0].length
Width(m) == Cardinality(DOMAIN m.tiles)
Height(m) == Cardinality(DOMAIN m.tiles[0])

Points(m) == {Point(x, y) : x \in 0..(Width(m) - 1), y \in 0..(Height(m) - 1)}

TileAt(m, p) == m.tiles[p.x][p.y]

SetTile(m, x, y, t) == [m EXCEPT !.tiles[x][y] = t]

createGameMap(width, height, defaultTileType) ==
  [tiles |-> [x \in 0..(width - 1) |-> [y \in 0..(height - 1) |-> defaultTileType]],
   edges |-> [x \in 0..(width - 1) |->
                [y \in 0..(height - 1) |-> [d \in ALL_DIRECTIONS_TYPES |-> Undefined]]]]

isWithinBounds(x, y, m) == x >= 0 /\ y >= 0 /\ x < Width(m) /\ y < Height(m)

\* mutant: every tile of the rectangle is overwritten, whatever its type
createRectangleOverAll(m, x, y, width, height, tileType, replaceType) ==
  [m EXCEPT !.tiles =
     [i \in DOMAIN m.tiles |-> [j \in DOMAIN m.tiles[i] |->
        IF /\ i >= x /\ i <= x + width - 1
           /\ j >= y /\ j <= y + height - 1
        THEN tileType
        ELSE m.tiles[i][j]]]]

\* replaceType = Undefined stands for the omitted optional argument
createRectangleInMap(m, x, y, width, height, tileType, replaceType) ==
  [m EXCEPT !.tiles =
     [i \in DOMAIN m.tiles |-> [j \in DOMAIN m.tiles[i] |->
        IF /\ i >= x /\ i <= x + width - 1
           /\ j >= y /\ j <= y + height - 1
           /\ (replaceType = Undefined \/ m.tiles[i][j] = replaceType)
        THEN tileType
        ELSE m.tiles[i][j]]]]

\* mutant: the type of the neighbour is not tested
getNeighborsOfAnyType(x, y, m, step, unvisitedTypes) ==
  (IF y > step - 1 THEN <<Point(x, y - step)>> ELSE <<>>)
  \o (IF x < Width(m) - step THEN <<Point(x + step, y)>> ELSE <<>>)
  \o (IF y < Height(m) - step THEN <<Point(x, y + step)>> ELSE <<>>)
  \o (IF x > step - 1 THEN <<Point(x - step, y)>> ELSE <<>>)

\* the neighbours in the order North, East, South, West, as a sequence
getUnvisitedNeighbors(x, y, m, step, unvisitedTypes) ==
  (IF y > step - 1 /\ m.tiles[x][y - step] \in unvisitedTypes
     THEN <<Point(x, y - step)>> ELSE <<>>)
  \o (IF x < Width(m) - step /\ m.tiles[x + step][y] \in unvisitedTypes
     THEN <<Point(x + step, y)>> ELSE <<>>)
  \o (IF y < Height(m) - step /\ m.tiles[x][y + step] \in unvisitedTypes
     THEN <<Point(x, y + step)>> ELSE <<>>)
  \o (IF x > step - 1 /\ m.tiles[x - step][y] \in unvisitedTypes
     THEN <<Point(x - step, y)>> ELSE <<>>)

\* the in-bounds neighbours in the order (0,1), (1,0), (0,-1), (-1,0)
getNeighbors(x, y, m) ==
  LET cand == <<Point(x, y + 1), Point(x + 1, y), Point(x, y - 1), Point(x - 1, y)>>
  IN  SelectSeq(cand, LAMBDA p : isWithinBounds(p.x, p.y, m))

Range(s) == {s[i] : i \in DOMAIN s}

-----------------------------------------------------------------------------
(* corridors.ts *)

createCorridorRectangle(m, x, y, corridorStep, tileType, replaceType) ==
  createRectangleInMap(m, x - (corridorStep \div 2), y - (corridorStep \div 2),
                       corridorStep, corridorStep, tileType, replaceType)

-----------------------------------------------------------------------------
(* maze.ts: generateMaze *)

Sign(n) == IF n > 0 THEN 1 ELSE IF n < 0 THEN -1 ELSE 0

RECURSIVE CarveLine(_, _, _, _, _, _, _)
\* the loop "for (let i = 1; i < wallStep; i++)" from index i on
CarveLine(m, current, sx, sy, i, wallStep, corridorStep) ==
  IF i < wallStep
    THEN CarveLine(createCorridorRectangle(m, current.x + i * sx, current.y + i * sy,
                                           corridorStep, CORRIDOR, Undefined),
                   current, sx, sy, i + 1, wallStep, corridorStep)
    ELSE m

\* mutant: the connecting line is not carved, only the neighbour's block
CarveToNoLine(m, current, randomNeighbor, wallStep, corridorStep) ==
  createCorridorRectangle(m, randomNeighbor.x, randomNeighbor.y,
                          corridorStep, CORRIDOR, Undefined)

\* mutant: the connecting line is carved, the neighbour's block is not
CarveToLineOnly(m, current, randomNeighbor, wallStep, corridorStep) ==
  CarveLine(m, current, Sign(randomNeighbor.x - current.x),
            Sign(randomNeighbor.y - current.y), 1, wallStep, corridorStep)

\* the body of "if (neighbors.length)" for the drawn neighbour
CarveTo(m, current, randomNeighbor, wallStep, corridorStep) ==
  LET sx == Sign(randomNeighbor.x - current.x)
      sy == Sign(randomNeighbor.y - current.y)
      line == CarveLine(m, current, sx, sy, 1, wallStep, corridorStep)
  IN  createCorridorRectangle(line, randomNeighbor.x, randomNeighbor.y,
                              corridorStep, CORRIDOR, Undefined)

MazeStart(corridorStep) == Point(corridorStep \div 2, corridorStep \div 2)

MazeWallSteps == {1, 2, 3}
MazeCorridorSteps == {1, 2}

InitMaze ==
  /\ \E width \in 1..MaxMazeDim, height \in 1..MaxMazeDim,
        wallStep \in MazeWallSteps, corridorStep \in MazeCorridorSteps :
       LET nearestLargerWidth == ((width \div wallStep) + 1) * wallStep + corridorStep
           nearestLargerHeight == ((height \div wallStep) + 1) * wallStep + corridorStep
           start == MazeStart(corridorStep)
       IN  /\ args = [width |-> width, height |-> height,
                      wallStep |-> wallStep, corridorStep |-> corridorStep]
           /\ map = createCorridorRectangle(
                      createGameMap(nearestLargerWidth, nearestLargerHeight, WALL),
                      start.x, start.y, corridorStep, CORRIDOR, Undefined)
           /\ stack = <<start>>
  /\ pc = "carving"
  /\ links = 0
  /\ map0 = Unused /\ points = Unused /\ roomTiles = Unused /\ clusters = Unused
  /\ returned = Unused
  /\ state = Unused /\ twin = Unused
  /\ size = 0 /\ iteration = 0

\* one iteration of the while loop with unvisited neighbours: carve and push
MazeCarve ==
  /\ pc = "carving"
  /\ Len(stack) > 0
  /\ LET current == stack[Len(stack)]
         neighbors == getUnvisitedNeighbors(current.x, current.y, map,
                                            args.wallStep, {WALL})
     IN  /\ Len(neighbors) > 0
         /\ \E k \in 1..Len(neighbors) :
              /\ map' = CarveTo(map, current, neighbors[k], args.wallStep, args.corridorStep)
              /\ stack' = Append(stack, neighbors[k])
  /\ links' = links + 1
  /\ UNCHANGED <<args, pc, notMaze>>

\* one iteration of the while loop without unvisited neighbours: pop
MazeBacktrack ==
  /\ pc = "carving"
  /\ Len(stack) > 0
  /\ LET current == stack[Len(stack)]
     IN  Len(getUnvisitedNeighbors(current.x, current.y, map, args.wallStep, {WALL})) = 0
  /\ stack' = SubSeq(stack, 1, Len(stack) - 1)
  /\ UNCHANGED <<map, args, pc, links, notMaze>>

MazeReturn ==
  /\ pc = "carving"
  /\ Len(stack) = 0
  /\ pc' = "done"
  /\ UNCHANGED <<map, args, stack, links, notMaze>>

NextMaze == MazeCarve \/ MazeBacktrack \/ MazeReturn

SpecMaze == InitMaze /\ [][NextMaze]_vars

-----------------------------------------------------------------------------
(* Connectivity helpers used to state the claims *)

Adjacent(p, q) ==
  \/ (p.x = q.x /\ (p.y = q.y + 1 \/ q.y = p.y + 1))
  \/ (p.y = q.y /\ (p.x = q.x + 1 \/ q.x = p.x + 1))

RECURSIVE Closure(_, _)
\* the points of `allowed` joined to a point of `seen` by a 4-connected path in `allowed`
Closure(seen, allowed) ==
  LET more == {p \in allowed \ seen : \E q \in seen : Adjacent(p, q)}
  IN  IF more = {} THEN seen ELSE Closure(seen \cup more, allowed)

TilesOfTypes(m, types) == {p \in Points(m) : TileAt(m, p) \in types}

\* C1: after generateMaze returns, every CORRIDOR tile is joined to the start
\* point by a 4-connected path of CORRIDOR tiles.
C1_MazeConnected ==
  pc = "done" =>
    LET corridors == TilesOfTypes(map, {CORRIDOR})
        start == MazeStart(args.corridorStep)
    IN  /\ start \in corridors
        /\ Closure({start}, corridors) = corridors

C1_Witness ==
  /\ pc = "done"
  /\ links >= 3
  /\ Cardinality(TilesOfTypes(map, {CORRIDOR})) >= 7
  /\ TilesOfTypes(map, {WALL}) # {}

-----------------------------------------------------------------------------
(* edges.ts: EDGE_CONFIGS and findRoomCadidateEdge *)

\* compare is "lt" for (a, b) => a < b and "gt" for (a, b) => a > b;
\* originCompare is then a <= b, respectively a >= b.  defaultAcc (+-Infinity)
\* is the value every coordinate compares true against.  rooms.ts writes the
\* door at config.edgeKey, the side named by config.direction.
EDGE_CONFIGS ==
  << [direction |-> TOP,    dx |-> 0,  dy |-> -1, compare |-> "lt"],
     [direction |-> BOTTOM, dx |-> 0,  dy |-> 1,  compare |-> "gt"],
     [direction |-> LEFT,   dx |-> -1, dy |-> 0,  compare |-> "lt"],
     [direction |-> RIGHT,  dx |-> 1,  dy |-> 0,  compare |-> "gt"] >>

\* the value of "no candidate yet" (null)
Null == [null |-> TRUE]

tileHasEdgeType(m, x, y, edgeType) ==
  \E d \in ALL_DIRECTIONS_TYPES : m.edges[x][y][d] = edgeType

ConfigValue(config, p) == IF config.direction \in {TOP, BOTTOM} THEN p.y ELSE p.x

\* mutant: a later tile at the same distance replaces the candidate
ConfigCompareOrEqual(config, a, acc) ==
  IF acc = Null THEN TRUE
  ELSE IF config.compare = "lt" THEN a <= ConfigValue(config, acc)
  ELSE a >= ConfigValue(config, acc)

ConfigCompare(config, a, acc) ==
  IF acc = Null THEN TRUE
  ELSE IF config.compare = "lt" THEN a < ConfigValue(config, acc)
  ELSE a > ConfigValue(config, acc)

ConfigOriginCompare(config, a, b) ==
  IF config.compare = "lt" THEN a <= b ELSE a >= b

\* map.tiles[x + config.dx] is undefined: reading [y + config.dy] of it throws
CandidateThrows(config, tiles, m) ==
  \E i \in DOMAIN tiles :
     /\ TileAt(m, tiles[i]) \in {ROOM, ROOM_ORIGIN}
     /\ (tiles[i].x + config.dx < 0 \/ tiles[i].x + config.dx >= Width(m))

\* the callback of roomTiles.reduce for one tile
CandidateStep(config, m, origin, acc, p) ==
  LET nx == p.x + config.dx
      ny == p.y + config.dy
      newValue == ConfigValue(config, p)
      originValue == ConfigValue(config, origin)
  IN  IF /\ TileAt(m, p) \in {ROOM, ROOM_ORIGIN}
         /\ ny >= 0 /\ ny < Height(m) /\ m.tiles[nx][ny] = CORRIDOR
         /\ m.edges[p.x][p.y][config.direction] \in {EMBRASURE, ROOM_WALL}
         /\ ConfigCompare(config, newValue, acc)
         /\ ConfigOriginCompare(config, newValue, originValue)
         /\ ~tileHasEdgeType(m, p.x, p.y, REINFORCED_DOOR)
      THEN p
      ELSE acc

RECURSIVE CandidateFrom(_, _, _, _, _, _)
CandidateFrom(config, tiles, m, origin, acc, i) ==
  IF i > Len(tiles) THEN acc
  ELSE CandidateFrom(config, tiles, m, origin,
                     CandidateStep(config, m, origin, acc, tiles[i]), i + 1)

\* defined when ~CandidateThrows(config, tiles, m)
findRoomCadidateEdge(config, tiles, m, origin) ==
  CandidateFrom(config, tiles, m, origin, Null, 1)

-----------------------------------------------------------------------------
(* rooms.ts: growRoom *)

iterationsMax == 10000

overridableTileTypes == {WALL, CORRIDOR}
roomTileTypes == {ROOM, ROOM_ORIGIN}

\* getDistance(p1, p2) <= maxRadius, on the squares (maxRadius is an integer)
WithinDistance(p1, p2, maxRadius) ==
  /\ maxRadius >= 0
  /\ (p2.x - p1.x) * (p2.x - p1.x) + (p2.y - p1.y) * (p2.y - p1.y)
       <= maxRadius * maxRadius

allSurroundingTilesOfTypes(m, x, y, tileTypes) ==
  \A p \in Range(getNeighbors(x, y, m)) : TileAt(m, p) \in tileTypes

\* the test of the post-process for one neighbour of a grown tile
Enclosed(m, p) ==
  \/ /\ TileAt(m, p) = CORRIDOR
     /\ allSurroundingTilesOfTypes(m, p.x, p.y, {ROOM, WALL})
  \/ /\ TileAt(m, p) = WALL
     /\ allSurroundingTilesOfTypes(m, p.x, p.y, {ROOM})

RECURSIVE AbsorbNeighbors(_, _, _)
\* the inner forEach over getNeighbors(tile), from index j on
AbsorbNeighbors(m, neighbors, j) ==
  IF j > Len(neighbors) THEN m
  ELSE AbsorbNeighbors(
         IF Enclosed(m, neighbors[j])
           THEN SetTile(m, neighbors[j].x, neighbors[j].y, ROOM)
           ELSE m,
         neighbors, j + 1)

RECURSIVE AbsorbEnclosed(_, _, _)
\* the outer forEach over roomTiles, from index i on
AbsorbEnclosed(m, tiles, i) ==
  IF i > Len(tiles) THEN m
  ELSE AbsorbEnclosed(
         AbsorbNeighbors(m, getNeighbors(tiles[i].x, tiles[i].y, m), 1),
         tiles, i + 1)

\* whether the edge on side d of room tile (rx, ry) is set to ROOM_WALL
FacesNonRoom(m, rx, ry, d) ==
  LET nx == IF d = RIGHT THEN rx + 1 ELSE IF d = LEFT THEN rx - 1 ELSE rx
      ny == IF d = BOTTOM THEN ry + 1 ELSE IF d = TOP THEN ry - 1 ELSE ry
  IN  /\ nx >= 0 /\ nx < Width(m)
      /\ (ny < 0 \/ ny >= Height(m) \/ m.tiles[nx][ny] \notin roomTileTypes)

\* "Set edges of the room to walls"
SetRoomWalls(m, tiles) ==
  [m EXCEPT !.edges =
     [x \in DOMAIN m.edges |-> [y \in DOMAIN m.edges[x] |->
        [d \in ALL_DIRECTIONS_TYPES |->
           IF Point(x, y) \in Range(tiles) /\ FacesNonRoom(m, x, y, d)
             THEN ROOM_WALL
             ELSE m.edges[x][y][d]]]]]

RECURSIVE AddDoorsOnAll(_, _, _, _)
\* mutant: every tile that passes the test gets the door, not only the reduced one
AddDoorsOnAll(m, tiles, origin, c) ==
  IF c > Len(EDGE_CONFIGS) THEN m
  ELSE IF CandidateThrows(EDGE_CONFIGS[c], tiles, m) THEN Null
  ELSE AddDoorsOnAll(
         [m EXCEPT !.edges =
            [x \in DOMAIN m.edges |-> [y \in DOMAIN m.edges[x] |->
               [d \in ALL_DIRECTIONS_TYPES |->
                  IF /\ d = EDGE_CONFIGS[c].direction
                     /\ Point(x, y) \in Range(tiles)
                     /\ CandidateStep(EDGE_CONFIGS[c], m, origin, Null,
                                      Point(x, y)) # Null
                    THEN REINFORCED_DOOR
                    ELSE m.edges[x][y][d]]]]],
         tiles, origin, c + 1)

RECURSIVE AddDoors(_, _, _, _)
\* EDGE_CONFIGS.forEach from index c on; Null when findRoomCadidateEdge throws
AddDoors(m, tiles, origin, c) ==
  IF c > Len(EDGE_CONFIGS) THEN m
  ELSE IF CandidateThrows(EDGE_CONFIGS[c], tiles, m) THEN Null
  ELSE LET doorCandidate == findRoomCadidateEdge(EDGE_CONFIGS[c], tiles, m, origin)
       IN  AddDoors(
             IF doorCandidate # Null
               THEN [m EXCEPT !.edges[doorCandidate.x][doorCandidate.y]
                                     [EDGE_CONFIGS[c].direction] = REINFORCED_DOOR]
               ELSE m,
             tiles, origin, c + 1)

\* mutant: the origin is set on the last grown tile instead of the seed
FinishRoomOriginAtLast(m, tiles, x, y) ==
  LET absorbed == AbsorbEnclosed(m, tiles, 1)
      last == IF Len(tiles) > 0 THEN tiles[Len(tiles)] ELSE Point(x, y)
      withOrigin == SetTile(absorbed, last.x, last.y, ROOM_ORIGIN)
      withWalls == SetRoomWalls(withOrigin, tiles)
  IN  AddDoors(withWalls, tiles, Point(x, y), 1)

\* growRoom after its growth loop: the post-process, the origin, the edges, the doors
FinishRoom(m, tiles, x, y) ==
  LET absorbed == AbsorbEnclosed(m, tiles, 1)
      withOrigin == SetTile(absorbed, x, y, ROOM_ORIGIN)
      withWalls == SetRoomWalls(withOrigin, tiles)
  IN  AddDoors(withWalls, tiles, Point(x, y), 1)

BagAdd(bag, p) == [bag EXCEPT ![p] = @ + 1]
BagRemove(bag, p) == [bag EXCEPT ![p] = @ - 1]
BagElements(bag) == {p \in DOMAIN bag : bag[p] > 0}

RECURSIVE BagAddAll(_, _, _)
BagAddAll(bag, s, i) ==
  IF i > Len(s) THEN bag ELSE BagAddAll(BagAdd(bag, s[i]), s, i + 1)

\* mutant: the guard is off by one
ReturnsEarlyBelowZero(maxSize) == maxSize < 0

\* the guard "maxSize < 1"
ReturnsEarly(maxSize) == maxSize < 1

\* "if (maxSize < 1) return newMap"
GrowNoOp ==
  /\ pc = "entry"
  /\ ReturnsEarly(args.maxSize)
  /\ pc' = "done"
  /\ UNCHANGED <<map, args, notRoom, roomVars>>

\* the declarations before the growth loop
GrowEnter ==
  /\ pc = "entry"
  /\ ~ReturnsEarly(args.maxSize)
  /\ points' = [p \in Points(map) |-> IF p = Point(args.x, args.y) THEN 1 ELSE 0]
  /\ roomTiles' = <<>>
  /\ size' = 0
  /\ iteration' = 0
  /\ pc' = "growing"
  /\ UNCHANGED <<map, args, notRoom, map0>>

GrowLoopCondition ==
  /\ BagElements(points) # {}
  /\ size < args.maxSize
  /\ iteration < iterationsMax

\* mutant: the distance from the seed is not checked
GrowTileAnyDistance(m, current, x, y, maxRadius) ==
  IF TileAt(m, current) \in overridableTileTypes
  THEN SetTile(m, current.x, current.y, ROOM)
  ELSE m

\* mutant: the type of the tile is not checked
GrowTileAnyType(m, current, x, y, maxRadius) ==
  IF WithinDistance(current, Point(x, y), maxRadius)
  THEN SetTile(m, current.x, current.y, ROOM)
  ELSE m

\* the tile the growth loop converts for the drawn point, or the map as it is
GrowTile(m, current, x, y, maxRadius) ==
  IF /\ TileAt(m, current) \in overridableTileTypes
     /\ WithinDistance(current, Point(x, y), maxRadius)
  THEN SetTile(m, current.x, current.y, ROOM)
  ELSE m

\* one iteration of the growth loop, for the point sample() draws
GrowIterate ==
  /\ pc = "growing"
  /\ GrowLoopCondition
  /\ \E current \in BagElements(points) :
       LET grown == GrowTile(map, current, args.x, args.y, args.maxRadius)
           rest == BagRemove(points, current)
       IN  /\ iteration' = iteration + 1
           /\ map' = grown
           /\ IF grown # map
                THEN /\ roomTiles' = Append(roomTiles, current)
                     /\ size' = size + 1
                     /\ points' = BagAddAll(rest,
                                    getUnvisitedNeighbors(current.x, current.y, grown, 1,
                                                          overridableTileTypes), 1)
                ELSE /\ points' = rest
                     /\ UNCHANGED <<roomTiles, size>>
  /\ UNCHANGED <<args, pc, notRoom, map0>>

\* the rest of growRoom once the loop has ended; a throw returns no map
GrowFinish ==
  /\ pc = "growing"
  /\ ~GrowLoopCondition
  /\ LET result == FinishRoom(map, roomTiles, args.x, args.y)
     IN  IF result = Null
           THEN pc' = "threw" /\ UNCHANGED map
           ELSE pc' = "done" /\ map' = result
  /\ UNCHANGED <<args, notRoom, map0, points, roomTiles, size, iteration>>

\* the all-wall grid with the tiles of `corridors` turned into CORRIDOR
GridWithCorridors(width, height, corridors) ==
  LET walls == createGameMap(width, height, WALL)
  IN  [walls EXCEPT !.tiles =
         [x \in DOMAIN walls.tiles |-> [y \in DOMAIN walls.tiles[x] |->
            IF Point(x, y) \in corridors THEN CORRIDOR ELSE WALL]]]

GridPoints(width, height) == {Point(x, y) : x \in 0..(width - 1), y \in 0..(height - 1)}

RECURSIVE SubsetsUpTo(_, _)
\* the subsets of S with at most n elements
SubsetsUpTo(S, n) ==
  IF n = 0 THEN {{}}
  ELSE LET smaller == SubsetsUpTo(S, n - 1)
       IN  smaller \cup {T \cup {e} : T \in smaller, e \in S}

RoomMaxSizes == 0..MaxRoomSize
RoomMaxRadii == -1..1
\* the seeds: an inner tile, a tile of the top row, a tile of the left column,
\* the tile an earlier room may stand on
RoomSeeds == {Point(1, 1), Point(1, 0), Point(0, 1), Point(1, 2)}
\* where an earlier call growRoom(grid, x, y, 1, 0) may have left a one-tile room
RoomPriors == {Point(1, 2)}

\* a corridor that turns around the corner above and left of the inner seed
CornerCorridors == {{Point(0, 0), Point(1, 0), Point(0, 1)}}

\* the map an earlier growRoom(m, prior.x, prior.y, 1, 0) returned
WithPriorRoom(m, prior) ==
  LET grown == GrowTile(m, prior, prior.x, prior.y, 0)
  IN  IF grown = m THEN FinishRoom(m, <<>>, prior.x, prior.y)
      ELSE FinishRoom(grown, <<prior>>, prior.x, prior.y)

\* growRoom is entered (the clone made) on a grid of walls and corridors
InitRoom ==
  /\ \E corridors \in SubsetsUpTo(GridPoints(RoomGridW, RoomGridH), MaxCorridorTiles)
                          \cup CornerCorridors,
        seed \in RoomSeeds, maxSize \in RoomMaxSizes, maxRadius \in RoomMaxRadii :
       /\ \/ map0 = GridWithCorridors(RoomGridW, RoomGridH, corridors)
          \/ \E prior \in RoomPriors :
               /\ map0 = WithPriorRoom(GridWithCorridors(RoomGridW, RoomGridH, corridors), prior)
               /\ map0 # Null
       /\ args = [x |-> seed.x, y |-> seed.y, maxSize |-> maxSize, maxRadius |-> maxRadius]
  /\ map = map0
  /\ pc = "entry"
  /\ points = Unused /\ roomTiles = Unused /\ size = 0 /\ iteration = 0
  /\ stack = Unused /\ links = 0 /\ clusters = Unused /\ returned = Unused
  /\ state = Unused /\ twin = Unused

NextRoom == GrowNoOp \/ GrowEnter \/ GrowIterate \/ GrowFinish

SpecRoom == InitRoom /\ [][NextRoom]_vars

-----------------------------------------------------------------------------
(* Claims about growRoom *)

\* the tiles the call turned into room tiles
NewRoomTiles == {p \in Points(map) : TileAt(map, p) \in roomTileTypes
                                     /\ TileAt(map0, p) \notin roomTileTypes}

\* the tiles the post-process absorbed: not the grown ones, and not the seed,
\* which is made the origin even when the loop did not convert it
AbsorbedTiles == (NewRoomTiles \ Range(roomTiles)) \ {Point(args.x, args.y)}

RoomNeighbours(m, p) == {q \in Points(m) : Adjacent(p, q) /\ TileAt(m, q) \in roomTileTypes}

DoorsOn(d) == {p \in NewRoomTiles : map.edges[p.x][p.y][d] = REINFORCED_DOOR}

\* C3: the number of tiles one growRoom call (maxSize >= 1) turns into room
\* tiles, the seed included, is at most maxSize.
C3_RoomSizeBound ==
  (pc = "done" /\ args.maxSize >= 1) => Cardinality(NewRoomTiles) <= args.maxSize

\* C4 as claimed: every grown tile lies within maxRadius of the seed, and every
\* tile absorbed by the post-process is 4-adjacent to at least 2 room tiles.
C4_Claimed ==
  (pc = "done" /\ args.maxSize >= 1) =>
    /\ \A p \in Range(roomTiles) :
         WithinDistance(p, Point(args.x, args.y), args.maxRadius)
    /\ \A p \in AbsorbedTiles : Cardinality(RoomNeighbours(map, p)) >= 2

\* C4 as amended: every grown tile lies within maxRadius of the seed, and every
\* tile absorbed by the post-process is 4-adjacent to at least 1 room tile,
\* one that the growth loop converted.
C4_RadiusAndAbsorbed ==
  (pc = "done" /\ args.maxSize >= 1) =>
    /\ \A p \in Range(roomTiles) :
         WithinDistance(p, Point(args.x, args.y), args.maxRadius)
    /\ \A p \in AbsorbedTiles :
         \E q \in Range(roomTiles) : Adjacent(p, q) /\ TileAt(map, q) \in roomTileTypes

\* a room of two grown tiles and one absorbed tile that lies outside maxRadius
C4_Witness ==
  /\ pc = "done"
  /\ size = 2
  /\ \E p \in AbsorbedTiles : ~WithinDistance(p, Point(args.x, args.y), args.maxRadius)

\* C5: after growRoom with maxSize >= 1 the seed is ROOM_ORIGIN, every other
\* ROOM_ORIGIN tile was ROOM_ORIGIN in the input, and on an input without
\* room origins the result has exactly one, at the seed.
C5_OneOrigin ==
  (pc = "done" /\ args.maxSize >= 1) =>
    /\ map.tiles[args.x][args.y] = ROOM_ORIGIN
    /\ \A p \in Points(map) :
         (TileAt(map, p) = ROOM_ORIGIN /\ p # Point(args.x, args.y))
           => TileAt(map0, p) = ROOM_ORIGIN
    /\ TilesOfTypes(map0, {ROOM_ORIGIN}) = {}
         => TilesOfTypes(map, {ROOM_ORIGIN}) = {Point(args.x, args.y)}

\* a two-tile room grown beside an earlier room, whose origin is kept
C5_Witness ==
  /\ pc = "done"
  /\ size = 2
  /\ Cardinality(TilesOfTypes(map, {ROOM_ORIGIN})) = 2
  /\ TilesOfTypes(map0, {ROOM_ORIGIN}) # {}

\* C6: growRoom with maxSize < 1 returns the tiles and edges of its input and
\* leaves the input as it was.
C6_NoOp ==
  [][(pc' = "done" /\ args.maxSize < 1) => (map' = map0 /\ map0' = map0)]_vars

C6_Witness ==
  /\ pc = "done"
  /\ args.maxSize < 1
  /\ TileAt(map, Point(args.x, args.y)) = CORRIDOR
  /\ TilesOfTypes(map, {ROOM_ORIGIN}) # {}

\* C7: the room growRoom grew carries at most one REINFORCED_DOOR edge per
\* direction over all of its tiles, hence at most four.
C7_OneDoorPerDirection ==
  pc = "done" => \A d \in ALL_DIRECTIONS_TYPES : Cardinality(DoorsOn(d)) <= 1

\* two tiles of the room both face a corridor on the left; one of them got the door
C7_Witness ==
  /\ pc = "done"
  /\ Cardinality(DoorsOn(LEFT)) = 1
  /\ \E p, q \in Range(roomTiles) :
       /\ p # q
       /\ p.x > 0 /\ q.x > 0
       /\ map.tiles[p.x - 1][p.y] = CORRIDOR
       /\ map.tiles[q.x - 1][q.y] = CORRIDOR

-----------------------------------------------------------------------------
(* corridors.ts: constructCorridor, findIsolatedClusters, connectClusters *)

\* connectClusters is called on grids of ClusterGridW x ClusterGridH tiles of
\* which at most MaxClusterTiles are not walls, and on the grid of the far
\* corners scenario: corridors at (0,0) and (ScenarioFar, ScenarioFar)
ClusterGridW == 4
ClusterGridH == 3
MaxClusterTiles == 3
ScenarioFar == 10

RECURSIVE HorizontalFrom(_, _, _, _, _)
\* "for (let x = startX; x <= endX; x++)" of constructHorizontal, from x on
HorizontalFrom(m, x, endX, y, corridorStep) ==
  IF x > endX THEN m
  ELSE HorizontalFrom(createCorridorRectangle(m, x, y, corridorStep, CORRIDOR, WALL),
                      x + 1, endX, y, corridorStep)

constructHorizontal(m, start, end, corridorStep) ==
  HorizontalFrom(m, Min(start.x, end.x), Max(start.x, end.x), start.y, corridorStep)

RECURSIVE VerticalFrom(_, _, _, _, _)
\* "for (let y = startY; y <= endY; y++)" of constructVertical, from y on
VerticalFrom(m, x, y, endY, corridorStep) ==
  IF y > endY THEN m
  ELSE VerticalFrom(createCorridorRectangle(m, x, y, corridorStep, CORRIDOR, WALL),
                    x, y + 1, endY, corridorStep)

constructVertical(m, start, end, corridorStep) ==
  VerticalFrom(m, start.x, Min(start.y, end.y), Max(start.y, end.y), corridorStep)

\* horizontalFirst is the outcome of "random() > 0.5"
constructCorridor(m, start, end, corridorStep, horizontalFirst) ==
  IF horizontalFirst
    THEN constructVertical(constructHorizontal(m, start, end, corridorStep),
                           Point(end.x, start.y), end, corridorStep)
    ELSE constructHorizontal(constructVertical(m, start, end, corridorStep),
                             Point(start.x, end.y), end, corridorStep)

traversableTypes == {CORRIDOR, ROOM, ROOM_ORIGIN}

\* floodFill(x, y, cluster) from an unvisited tile: the tiles joined to it by
\* non-wall tiles.  Of a cluster only the membership of points is ever read.
floodFill(m, p) == Closure({p}, {q \in Points(m) : TileAt(m, q) # WALL})

RECURSIVE ScanColumn(_, _, _, _)
\* the inner loop of findIsolatedClusters: column x from row y on; acc holds
\* the visited tiles and the clusters found so far
ScanColumn(m, x, y, acc) ==
  IF y >= Height(m) THEN acc
  ELSE IF Point(x, y) \notin acc.visited /\ m.tiles[x][y] \in traversableTypes
    THEN LET cluster == floodFill(m, Point(x, y))
         IN  ScanColumn(m, x, y + 1, [visited |-> acc.visited \cup cluster,
                                      found |-> Append(acc.found, cluster)])
    ELSE ScanColumn(m, x, y + 1, acc)

RECURSIVE ScanClusters(_, _, _)
\* the outer loop of findIsolatedClusters from column x on
ScanClusters(m, x, acc) ==
  IF x >= Width(m) THEN acc.found
  ELSE ScanClusters(m, x + 1, ScanColumn(m, x, 0, acc))

findIsolatedClusters(m) == ScanClusters(m, 0, [visited |-> {}, found |-> <<>>])

RECURSIVE Lattice(_, _, _)
\* the values of "for (let v = first; v < limit; v += step)"
Lattice(first, limit, step) ==
  IF first >= limit THEN <<>> ELSE <<first>> \o Lattice(first + step, limit, step)

\* the intersections in scan order: x outer, y inner
getIntersectionsInCluster(m, cluster, wallStep, corridorStep) ==
  LET half == corridorStep \div 2
      xs == Lattice(wallStep + half, Width(m) - half, wallStep)
      ys == Lattice(wallStep + half, Height(m) - half, wallStep)
      all == [k \in 1..(Len(xs) * Len(ys)) |->
                Point(xs[((k - 1) \div Len(ys)) + 1], ys[((k - 1) % Len(ys)) + 1])]
  IN  SelectSeq(all, LAMBDA p : /\ p.x < Width(m) /\ p.y < Height(m)
                                /\ p \in cluster
                                /\ TileAt(m, p) \in traversableTypes)

\* getDistance squared; distances are only compared with each other
Distance2(p1, p2) ==
  (p2.x - p1.x) * (p2.x - p1.x) + (p2.y - p1.y) * (p2.y - p1.y)

\* the pairs (s, e) the loops of connectClusters visit, with their position
\* in the iteration: cluster index i, then index of s, then index of e
NearestCandidates(m, list, wallStep, corridorStep) ==
  LET possibleStart == getIntersectionsInCluster(m, list[1], wallStep, corridorStep)
  IN  UNION {
        LET possibleEnd == getIntersectionsInCluster(m, list[i], wallStep, corridorStep)
        IN  {[i |-> i, si |-> si, ei |-> ei,
              start |-> possibleStart[si], end |-> possibleEnd[ei]] :
               si \in DOMAIN possibleStart, ei \in DOMAIN possibleEnd}
        : i \in 2..Len(list)}

\* c is visited before d
VisitedBefore(c, d) ==
  \/ c.i < d.i
  \/ c.i = d.i /\ c.si < d.si
  \/ c.i = d.i /\ c.si = d.si /\ c.ei < d.ei

\* what "if (distance < minDistance)" leaves in start and end: the first pair
\* visited among those of least distance; { x: 0, y: 0 } twice when no pair is visited
NearestPair(m, list, wallStep, corridorStep) ==
  LET cands == NearestCandidates(m, list, wallStep, corridorStep)
  IN  IF cands = {} THEN [start |-> Point(0, 0), end |-> Point(0, 0)]
      ELSE LET best == CHOOSE c \in cands : \A d \in cands \ {c} :
                         \/ Distance2(c.start, c.end) < Distance2(d.start, d.end)
                         \/ /\ Distance2(c.start, c.end) = Distance2(d.start, d.end)
                            /\ VisitedBefore(c, d)
           IN  [start |-> best.start, end |-> best.end]

\* mutant: the nearest cluster is spliced off the list together with the current
SpliceFirstTwo(list) == Tail(Tail(list))

\* "clusters.splice(currentClusterIndex, 1)", currentClusterIndex being 0
SpliceFirst(list) == Tail(list)

\* one iteration of "while (clusters.length > 1)": connect clusters[0] to the
\* nearest cluster, then splice it off the list
ConnectIterate ==
  /\ pc = "connecting"
  /\ Len(clusters) > 1
  /\ LET nearest == NearestPair(map, clusters, args.wallStep, args.corridorStep)
     IN  \E horizontalFirst \in BOOLEAN :
           map' = constructCorridor(map, nearest.start, nearest.end,
                                    args.corridorStep, horizontalFirst)
  /\ clusters' = SpliceFirst(clusters)
  /\ iteration' = iteration + 1
  /\ UNCHANGED <<args, pc, map0, notClusters>>

\* the loop exits and connectClusters returns map
ConnectReturn ==
  /\ pc = "connecting"
  /\ Len(clusters) <= 1
  /\ pc' = "done"
  /\ UNCHANGED <<map, args, map0, clusters, iteration, notClusters>>

\* the least tile of a set in scan order (x outer, y inner)
FirstTile(S) == CHOOSE p \in S : \A q \in S : p.x < q.x \/ (p.x = q.x /\ p.y <= q.y)

\* the all-wall grid with the tiles of S turned into corridors, the first of
\* them into firstType
GridWithTiles(width, height, S, firstType) ==
  LET grid == GridWithCorridors(width, height, S)
  IN  IF S = {} THEN grid
      ELSE SetTile(grid, FirstTile(S).x, FirstTile(S).y, firstType)

ClusterWallSteps == {1, 2}
ClusterCorridorSteps == {1, 2}

\* connectClusters(map, findIsolatedClusters(map), wallStep, corridorStep) is entered
InitClusters ==
  /\ \E wallStep \in ClusterWallSteps, corridorStep \in ClusterCorridorSteps :
       args = [wallStep |-> wallStep, corridorStep |-> corridorStep]
  /\ \/ \E S \in SubsetsUpTo(GridPoints(ClusterGridW, ClusterGridH), MaxClusterTiles),
           firstType \in {CORRIDOR, ROOM_ORIGIN} :
          map0 = GridWithTiles(ClusterGridW, ClusterGridH, S, firstType)
     \/ map0 = GridWithCorridors(ScenarioFar + 1, ScenarioFar + 1,
                                 {Point(0, 0), Point(ScenarioFar, ScenarioFar)})
  /\ map = map0
  /\ clusters = findIsolatedClusters(map0)
  /\ pc = "connecting"
  /\ stack = Unused /\ links = 0 /\ returned = Unused
  /\ state = Unused /\ twin = Unused
  /\ points = Unused /\ roomTiles = Unused /\ size = 0 /\ iteration = 0

NextClusters == ConnectIterate \/ ConnectReturn

SpecClusters == InitClusters /\ [][NextClusters]_vars

-----------------------------------------------------------------------------
(* Claims about connectClusters *)

\* C2: after connectClusters(map, findIsolatedClusters(map), wallStep,
\* corridorStep) on a grid with at least one corridor, room or room-origin
\* tile, findIsolatedClusters of the result returns exactly one cluster.
C2_SingleCluster ==
  (pc = "done" /\ TilesOfTypes(map0, traversableTypes) # {}) =>
    Len(findIsolatedClusters(map)) = 1

\* C10: for single-tile corridor clusters at (0,0) and (ScenarioFar, ScenarioFar)
\* on an otherwise all-wall grid, the repair leaves exactly one cluster and a
\* 4-connected path of corridor tiles joins the two points.
C10_FarCornersJoined ==
  (/\ pc = "done"
   /\ TilesOfTypes(map0, {CORRIDOR}) = {Point(0, 0), Point(ScenarioFar, ScenarioFar)}
   /\ TilesOfTypes(map0, {WALL, CORRIDOR}) = Points(map0)) =>
    /\ Len(findIsolatedClusters(map)) = 1
    /\ Point(ScenarioFar, ScenarioFar)
         \in Closure({Point(0, 0)}, TilesOfTypes(map, {CORRIDOR}))

-----------------------------------------------------------------------------
(* edges.ts: createEdgesBetweenTiles *)

\* createEdgesBetweenTiles is called on grids of EdgeGridW x EdgeGridH tiles of
\* which at most MaxEdgeTiles are not walls
EdgeGridW == 2
EdgeGridH == 2
MaxEdgeTiles == 2

\* mutant: a strip takes doors on every side
AnyDirectionTypes == ALL_DIRECTIONS_TYPES

HORIZONTAL_DIRECTION_TYPES == {LEFT, RIGHT}

\* the points of the rectangle in push order: x outer, y inner
getRectanglePoints(m, x, y, width, height) ==
  LET w == Max(0, Min(x + width, Width(m)) - x)
      h == Max(0, Min(y + height, Height(m)) - y)
  IN  [k \in 1..(w * h) |-> Point(x + ((k - 1) \div h), y + ((k - 1) % h))]

\* the null determineDirection returns for a neighbor at the tile itself
NoDirection == "null"

determineDirection(tile, neighbor) ==
  IF tile.x < neighbor.x THEN RIGHT
  ELSE IF tile.x > neighbor.x THEN LEFT
  ELSE IF tile.y < neighbor.y THEN BOTTOM
  ELSE IF tile.y > neighbor.y THEN TOP
  ELSE NoDirection

\* mutant: the write clears a side that already holds the edge type
SetEdgeToggling(m, tile, direction, edgeType) ==
  [m EXCEPT !.edges[tile.x][tile.y][direction] =
     IF @ = edgeType THEN Undefined ELSE edgeType]

\* "map.edges[tile.x][tile.y]![direction] = edgeType"
SetEdge(m, tile, direction, edgeType) ==
  [m EXCEPT !.edges[tile.x][tile.y][direction] = edgeType]

\* the body of "for (const neighbor of neighbors)"; a is the record of the
\* arguments of createEdgesBetweenTiles
EdgeToNeighbor(m, tile, neighbor, a) ==
  LET currentTileType == TileAt(m, tile)
      neighborTileType == TileAt(m, neighbor)
      direction == determineDirection(tile, neighbor)
  IN  IF direction # NoDirection /\ direction \in a.allowedDirections
        THEN LET inner == IF /\ a.innerEdges
                             /\ currentTileType \in a.tileTypes1
                             /\ neighborTileType \in a.tileTypes2
                            THEN SetEdge(m, tile, direction, a.innerEdgeType)
                            ELSE m
             IN  IF /\ a.outerEdges
                    /\ currentTileType \in a.tileTypes2
                    /\ neighborTileType \in a.tileTypes1
                   THEN SetEdge(inner, tile, direction, a.outerEdgeType)
                   ELSE inner
        ELSE m

RECURSIVE EdgesOfTile(_, _, _, _, _)
\* "for (const neighbor of neighbors)" from index j on
EdgesOfTile(m, tile, neighbors, j, a) ==
  IF j > Len(neighbors) THEN m
  ELSE EdgesOfTile(EdgeToNeighbor(m, tile, neighbors[j], a), tile, neighbors, j + 1, a)

RECURSIVE EdgesFrom(_, _, _)
\* "for (const tile of roomTiles)" from index i on
EdgesFrom(m, i, a) ==
  IF i > Len(a.roomTiles) THEN m
  ELSE LET tile == a.roomTiles[i]
       IN  EdgesFrom(EdgesOfTile(m, tile, getNeighbors(tile.x, tile.y, m), 1, a), i + 1, a)

createEdgesBetweenTiles(m, a) == EdgesFrom(m, 1, a)

\* the grids of width x height tiles with at most n tiles that are not walls,
\* these of the given types
GridsOfTypes(width, height, n, types) ==
  LET walls == createGameMap(width, height, WALL)
  IN  UNION {
        {[walls EXCEPT !.tiles =
            [x \in DOMAIN walls.tiles |-> [y \in DOMAIN walls.tiles[x] |->
               IF Point(x, y) \in S THEN f[Point(x, y)] ELSE WALL]]] : f \in [S -> types]}
        : S \in SubsetsUpTo(GridPoints(width, height), n)}

\* tileTypes1, tileTypes2 of the calls: the secret-door call of
\* createSecretCorridors, a call with overlapping type lists, a call against walls
EdgeTypeLists ==
  { <<{SECRET_CORRIDOR}, {CORRIDOR, ROOM, ROOM_ORIGIN}>>,
    <<{ROOM}, {ROOM, SECRET_CORRIDOR}>>,
    <<{SECRET_CORRIDOR}, {WALL}>> }

\* innerEdgeType, outerEdgeType of the calls
EdgeTypePairs == { <<HIDDEN_DOOR, Undefined>>, <<ROOM_WALL, EMBRASURE>> }

\* innerEdges, outerEdges of the calls
EdgeFlags == { <<TRUE, TRUE>>, <<TRUE, FALSE>>, <<FALSE, TRUE>> }

\* createEdgesBetweenTiles is about to be called on a grid whose edges are
\* unset, but for a door an earlier stage may have left
InitEdges ==
  /\ \E grid \in GridsOfTypes(EdgeGridW, EdgeGridH, MaxEdgeTiles, {ROOM, SECRET_CORRIDOR}),
        door \in BOOLEAN :
       map = IF door THEN SetEdge(grid, Point(0, 0), RIGHT, REINFORCED_DOOR) ELSE grid
  /\ \E lists \in EdgeTypeLists, types \in EdgeTypePairs, flags \in EdgeFlags,
        allowedDirections \in {ALL_DIRECTIONS_TYPES, HORIZONTAL_DIRECTION_TYPES},
        width \in {1, EdgeGridW} :
       args = [roomTiles |-> getRectanglePoints(map, 0, 0, width, EdgeGridH),
               tileTypes1 |-> lists[1], tileTypes2 |-> lists[2],
               innerEdgeType |-> types[1], outerEdgeType |-> types[2],
               allowedDirections |-> allowedDirections,
               innerEdges |-> flags[1], outerEdges |-> flags[2]]
  /\ map0 = map
  /\ pc = "entry"
  /\ stack = Unused /\ links = 0 /\ clusters = Unused /\ returned = Unused
  /\ state = Unused /\ twin = Unused
  /\ points = Unused /\ roomTiles = Unused /\ size = 0 /\ iteration = 0

\* the first application
EdgesApply ==
  /\ pc = "entry"
  /\ map' = createEdgesBetweenTiles(map, args)
  /\ map0' = map
  /\ pc' = "once"
  /\ UNCHANGED <<args, notTiles>>

\* the second application, with the same arguments, to the grid of the first
EdgesApplyAgain ==
  /\ pc = "once"
  /\ map' = createEdgesBetweenTiles(map, args)
  /\ map0' = map
  /\ pc' = "twice"
  /\ UNCHANGED <<args, notTiles>>

NextEdges == EdgesApply \/ EdgesApplyAgain

SpecEdges == InitEdges /\ [][NextEdges]_vars

-----------------------------------------------------------------------------
(* Claims about createEdgesBetweenTiles *)

\* C8: createEdgesBetweenTiles is idempotent: the second application, with the
\* same arguments, to the grid the first application produced returns a grid
\* with the same edges (and tiles) as the first.
C8_Idempotent == pc = "twice" => (map.edges = map0.edges /\ map.tiles = map0.tiles)

\* the first application wrote an inner and an outer edge, and cleared or
\* overwrote nothing of them the second time
C8_Witness ==
  /\ pc = "twice"
  /\ args.innerEdgeType = ROOM_WALL
  /\ \E p, q \in Points(map) :
       /\ \E d \in ALL_DIRECTIONS_TYPES : map.edges[p.x][p.y][d] = ROOM_WALL
       /\ \E d \in ALL_DIRECTIONS_TYPES : map.edges[q.x][q.y][d] = EMBRASURE

-----------------------------------------------------------------------------
(* traps.ts: placeTraps; utils/random.ts: shuffle *)

\* placeTraps is called on grids of TrapGridW x TrapGridH tiles of which at most
\* MaxTrapTiles are not walls, and on a corridor of LongCorridor tiles in a
\* row; arrays of up to MaxShuffled elements are shuffled with every sequence
\* of draws, longer ones with the draws of ShufflePolicies
TrapGridW == 3
TrapGridH == 2
MaxTrapTiles == 3
MaxShuffled == 3
LongCorridor == 50

\* 2^n
RECURSIVE Pow2(_)
Pow2(n) == IF n = 0 THEN 1 ELSE 2 * Pow2(n - 1)

\* 2^n modulo 100
RECURSIVE Pow2Mod100(_)
Pow2Mod100(n) == IF n = 0 THEN 1 ELSE (2 * Pow2Mod100(n - 1)) % 100

\* the exponent of the binary64 nearest to p / 100: the least t with p * 2^t >= 100
RECURSIVE QuotientShift(_, _)
QuotientShift(p, t) == IF p * Pow2(t) >= 100 THEN t ELSE QuotientShift(p, t + 1)

\* floor(log2(k)), k >= 1
RECURSIVE Log2(_)
Log2(k) == IF k < 2 THEN 0 ELSE 1 + Log2(k \div 2)

\* Math.floor(n * (p / 100)) in binary64 (round to nearest, ties to even), for
\* integers 0 <= p <= 100 and 0 <= n < 2^20.  p / 100 is rounded to 53
\* significant bits: with e = 52 + t it becomes (p * 2^e - r) / (100 * 2^e) when
\* r = (p * 2^e) mod 100 is below 50, and is rounded up otherwise.  The product
\* with n is rounded again; its floor differs from floor(n * p / 100) only when
\* n * p / 100 is an integer k and the product rounds to the binary64 below k,
\* which is when n * r exceeds 100 * 2^e times half the gap below k.
FloorOfShare(n, p) ==
  IF n = 0 \/ p = 0 THEN 0
  ELSE IF (n * p) % 100 # 0 THEN (n * p) \div 100
  ELSE LET k == (n * p) \div 100
           t == QuotientShift(p, 0)
           r == (p * Pow2Mod100(52 + t)) % 100
           j == Log2(k)
       IN  IF r = 0 \/ r > 50 THEN k
           ELSE IF k # Pow2(j)
             THEN (IF 2 * n * r <= 100 * Pow2(t + j) THEN k ELSE k - 1)
             ELSE (IF 4 * n * r <= 100 * Pow2(t + j) THEN k ELSE k - 1)

\* common.ts: some 4-neighbour of the tile holds the type
isTileAdjacentToType(tile, m, type) ==
  \E q \in Range(getNeighbors(tile.x, tile.y, m)) : TileAt(m, q) = type

\* the corridor tiles placeTraps collects, in push order: x outer, y inner
corridorPoints(m) ==
  LET all == getRectanglePoints(m, 0, 0, Width(m), Height(m))
  IN  SelectSeq(all, LAMBDA p : /\ TileAt(m, p) = CORRIDOR
                                /\ ~isTileAdjacentToType(p, m, SECRET_CORRIDOR))

\* "[shuffledArr[i], shuffledArr[j]] = [shuffledArr[j], shuffledArr[i]]", 1-based
Swap(arr, i, j) == [arr EXCEPT ![i] = arr[j], ![j] = arr[i]]

RECURSIVE ShuffleFrom(_, _, _)
\* the loop of shuffle from index i (0-based) down; draws[i] is
\* Math.floor(random() * (i + 1))
ShuffleFrom(arr, i, draws) ==
  IF i <= 0 THEN arr
  ELSE ShuffleFrom(Swap(arr, i + 1, draws[i] + 1), i - 1, draws)

shuffle(arr, draws) == ShuffleFrom(arr, Len(arr) - 1, draws)

\* random() near 0 at every draw, near 1 at every draw, 1/2 at every draw
ShufflePolicies == {"low", "high", "half"}

\* the sequences of draws of one shuffle of n elements
DrawSequences(n) ==
  IF n <= MaxShuffled
    THEN {d \in [1..(n - 1) -> 0..(n - 1)] : \A i \in 1..(n - 1) : d[i] <= i}
    ELSE {[i \in 1..(n - 1) |-> CASE policy = "low" -> 0
                                  [] policy = "high" -> i
                                  [] OTHER -> (i + 1) \div 2] : policy \in ShufflePolicies}

\* "for (let i = 0; i < totalTraps; i++) map.tiles[x][y] = TRAP_PITFALL" over
\* the first totalTraps points of shuffled; every write stores the same value
TrapsOnPrefix(m, shuffled, totalTraps) ==
  LET chosen == {shuffled[i] : i \in 1..totalTraps}
  IN  [m EXCEPT !.tiles =
         [x \in DOMAIN m.tiles |-> [y \in DOMAIN m.tiles[x] |->
            IF Point(x, y) \in chosen THEN TRAP_PITFALL ELSE m.tiles[x][y]]]]

TrapPercentages == {0, 25, 50, 58, 100}

\* placeTraps(map, trapPercentage) is entered
InitTraps ==
  /\ \/ map0 \in GridsOfTypes(TrapGridW, TrapGridH, MaxTrapTiles, {CORRIDOR, SECRET_CORRIDOR})
     \/ map0 = createGameMap(LongCorridor, 1, CORRIDOR)
  /\ \E trapPercentage \in TrapPercentages : args = [trapPercentage |-> trapPercentage]
  /\ map = map0
  /\ pc = "entry"
  /\ stack = Unused /\ links = 0 /\ clusters = Unused /\ returned = Unused
  /\ state = Unused /\ twin = Unused
  /\ points = Unused /\ roomTiles = Unused /\ size = 0 /\ iteration = 0

\* placeTraps, whole: collect, count, shuffle, place
PlaceTraps ==
  /\ pc = "entry"
  /\ LET collected == corridorPoints(map)
         totalTraps == FloorOfShare(Len(collected), args.trapPercentage)
     IN  \E draws \in DrawSequences(Len(collected)) :
           map' = TrapsOnPrefix(map, shuffle(collected, draws), totalTraps)
  /\ pc' = "done"
  /\ UNCHANGED <<args, map0, notTiles>>

NextTraps == PlaceTraps

SpecTraps == InitTraps /\ [][NextTraps]_vars

-----------------------------------------------------------------------------
(* Claims about placeTraps *)

\* the tiles of the grid given to placeTraps that are eligible for a trap
EligibleTiles == Range(corridorPoints(map0))

\* the tiles placeTraps changed
ChangedTiles == {p \in Points(map) : TileAt(map, p) # TileAt(map0, p)}

\* C9: placeTraps(map, p) converts exactly floor(n * p / 100) tiles to
\* TRAP_PITFALL, n being the number of eligible tiles; all of them are eligible
\* tiles, and no other tile and no edge is changed.
C9_TrapCount ==
  pc = "done" =>
    /\ Cardinality(ChangedTiles) = (Cardinality(EligibleTiles) * args.trapPercentage) \div 100
    /\ ChangedTiles \subseteq EligibleTiles
    /\ \A p \in ChangedTiles : TileAt(map, p) = TRAP_PITFALL
    /\ map.edges = map0.edges

-----------------------------------------------------------------------------
(* Claims about the lattice of generateMaze *)

\* the in-bounds lattice points (start + i * wallStep, start + j * wallStep)
MazeLattice(m, wallStep, corridorStep) ==
  LET start == MazeStart(corridorStep)
  IN  {p \in Points(m) : /\ p.x >= start.x /\ (p.x - start.x) % wallStep = 0
                         /\ p.y >= start.y /\ (p.y - start.y) % wallStep = 0}

\* the lattice points carved so far
CarvedLattice ==
  {p \in MazeLattice(map, args.wallStep, args.corridorStep) : TileAt(map, p) = CORRIDOR}

-----------------------------------------------------------------------------
(* More claims about connectClusters *)

\* the number of clusters connectClusters was given
InputClusters == Len(findIsolatedClusters(map0))

\* C12: connectClusters terminates after exactly k - 1 iterations for k input
\* clusters, none when k <= 1: every iteration removes exactly one cluster
\* from the list, the loop goes on exactly while fewer than k - 1 iterations
\* are done, and the call has returned only after all of them.
C12_Terminates ==
  LET bound == Max(InputClusters - 1, 0)
  IN  /\ Len(clusters) + iteration = InputClusters
      /\ iteration <= bound
      /\ pc = "connecting" => (Len(clusters) > 1 <=> iteration < bound)
      /\ pc = "done" => iteration = bound

\* a call with three clusters has returned after two iterations
C12_Witness == pc = "done" /\ InputClusters = 3 /\ iteration = 2

-----------------------------------------------------------------------------
(* corridors.ts: removeIsolatedCorridors *)

\* removeIsolatedCorridors is called on grids of RemoveGridW x RemoveGridH
\* tiles of which at most MaxRemoveTiles are not walls
RemoveGridW == 3
RemoveGridH == 2
MaxRemoveTiles == 3

\* mutant: the flood fill also starts from the ROOM tiles
FloodStartsAnyRoom(m) == {p \in Points(m) : TileAt(m, p) \in {ROOM, ROOM_ORIGIN}}

\* the tiles the scan calls floodFill on: "map.tiles[x][y] === TileType.ROOM_ORIGIN"
FloodStarts(m) == {p \in Points(m) : TileAt(m, p) = ROOM_ORIGIN}

RECURSIVE FloodVisited(_, _)
\* the tiles floodFill marks visited, given those marked so far: a call
\* returns at a visited tile and at a WALL, marks any other tile, and goes on
\* to the neighbours of a tile that is CORRIDOR, ROOM or ROOM_ORIGIN
FloodVisited(m, visited) ==
  LET spreading == {p \in visited : TileAt(m, p) \in {CORRIDOR, ROOM, ROOM_ORIGIN}}
      called == UNION {Range(getNeighbors(p.x, p.y, m)) : p \in spreading}
      marked == {q \in called \ visited : TileAt(m, q) # WALL}
  IN  IF marked = {} THEN visited ELSE FloodVisited(m, visited \cup marked)

\* the returned map: "{ ...map, tiles: ... }"
removeIsolatedCorridors(m) ==
  LET visited == FloodVisited(m, FloodStarts(m))
  IN  [m EXCEPT !.tiles =
         [x \in DOMAIN m.tiles |-> [y \in DOMAIN m.tiles[x] |->
            IF Point(x, y) \notin visited /\ m.tiles[x][y] = CORRIDOR
              THEN WALL
              ELSE m.tiles[x][y]]]]

\* removeIsolatedCorridors(map) is entered
InitRemove ==
  /\ \E S \in SubsetsUpTo(GridPoints(RemoveGridW, RemoveGridH), MaxRemoveTiles) :
       \E f \in [S -> {CORRIDOR, ROOM, ROOM_ORIGIN, SECRET_CORRIDOR}] :
         map0 = [createGameMap(RemoveGridW, RemoveGridH, WALL) EXCEPT !.tiles =
                   [x \in 0..(RemoveGridW - 1) |-> [y \in 0..(RemoveGridH - 1) |->
                      IF Point(x, y) \in S THEN f[Point(x, y)] ELSE WALL]]]
  /\ map = map0
  /\ args = Unused
  /\ pc = "entry"
  /\ stack = Unused /\ links = 0 /\ clusters = Unused /\ returned = Unused
  /\ state = Unused /\ twin = Unused
  /\ points = Unused /\ roomTiles = Unused /\ size = 0 /\ iteration = 0

\* removeIsolatedCorridors, whole; map is the returned grid
RemoveIsolated ==
  /\ pc = "entry"
  /\ map' = removeIsolatedCorridors(map)
  /\ pc' = "done"
  /\ UNCHANGED <<args, map0, notTiles>>

NextRemove == RemoveIsolated

SpecRemove == InitRemove /\ [][NextRemove]_vars

-----------------------------------------------------------------------------
(* Claims about removeIsolatedCorridors *)

\* the tiles joined to a ROOM_ORIGIN tile by a 4-connected path of corridor,
\* room and room-origin tiles
JoinedToOrigin(m) ==
  Closure(TilesOfTypes(m, {ROOM_ORIGIN}), TilesOfTypes(m, traversableTypes))

-----------------------------------------------------------------------------
(* corridors.ts: a call of findIsolatedClusters *)

\* findIsolatedClusters(map) is entered, on the grids of InitRemove
InitFind == InitRemove

\* findIsolatedClusters, whole; clusters is the returned list
FindClusters ==
  /\ pc = "entry"
  /\ clusters' = findIsolatedClusters(map)
  /\ pc' = "done"
  /\ UNCHANGED <<map, args, map0, mazeVars, points, roomTiles, size, iteration,
                 returned, rngVars>>

NextFind == FindClusters

SpecFind == InitFind /\ [][NextFind]_vars

\* the position of a tile in the scan: x ascending, then y ascending
ScanIndex(m, p) == p.x * Height(m) + p.y

\* the position at which the scan first meets a tile of the cluster
FirstMet(m, cluster) ==
  CHOOSE n \in {ScanIndex(m, p) : p \in cluster} :
    \A p \in cluster : n <= ScanIndex(m, p)

\* C14: findIsolatedClusters returns the maximal 4-connected components of the
\* traversable tiles: every corridor, room and room-origin tile is in exactly
\* one cluster, every point of a cluster holds such a type, two traversable
\* tiles share a cluster exactly when a path of traversable tiles joins them,
\* and the clusters come in the order in which the scan first meets them.
C14_Components ==
  pc = "done" =>
    LET traversable == TilesOfTypes(map, traversableTypes)
    IN  /\ \A p \in traversable :
             Cardinality({i \in DOMAIN clusters : p \in clusters[i]}) = 1
        /\ \A i \in DOMAIN clusters : clusters[i] \subseteq traversable
        /\ \A p, q \in traversable :
             (\E i \in DOMAIN clusters : p \in clusters[i] /\ q \in clusters[i])
               <=> q \in Closure({p}, traversable)
        /\ \A i, j \in DOMAIN clusters :
             i < j => FirstMet(map, clusters[i]) < FirstMet(map, clusters[j])

-----------------------------------------------------------------------------
(* main.ts: generateMap, from the removal of isolated corridors to the export *)

\* grids of PipeGridW x PipeGridH tiles with at most MaxPipeTiles non-wall tiles
PipeGridW == 4
PipeGridH == 3
MaxPipeTiles == 3

\* connectClusters, whole; coins[i] is the draw of horizontalFirst in iteration i
RECURSIVE connectClustersFrom(_, _, _, _, _, _)
connectClustersFrom(m, list, wallStep, corridorStep, coins, i) ==
  IF Len(list) <= 1 THEN m
  ELSE LET nearest == NearestPair(m, list, wallStep, corridorStep)
       IN  connectClustersFrom(
             constructCorridor(m, nearest.start, nearest.end, corridorStep, coins[i]),
             SpliceFirst(list), wallStep, corridorStep, coins, i + 1)

connectClusters(m, list, wallStep, corridorStep, coins) ==
  connectClustersFrom(m, list, wallStep, corridorStep, coins, 1)

\* tiles.slice(corridorStep, -corridorStep) of every row and of the row list;
\* the same for edges
shrinkMap(m, corridorStep) ==
  LET w == Max(Width(m) - 2 * corridorStep, 0)
      h == Max(Height(m) - 2 * corridorStep, 0)
  IN  [tiles |-> [x \in 0..(w - 1) |-> [y \in 0..(h - 1) |->
                    m.tiles[x + corridorStep][y + corridorStep]]],
       edges |-> [x \in 0..(w - 1) |-> [y \in 0..(h - 1) |->
                    m.edges[x + corridorStep][y + corridorStep]]]]

\* "profile(stage)(globalMap, ...)" as a statement: the value the stage returns
\* is dropped and globalMap keeps the object it had
PassOn(globalMap, result) == globalMap

\* generateMap has reached "Remove isolated corridors"; map is globalMap, and
\* returned is the grid the stages before it left
InitPipeline ==
  /\ \E wallStep \in ClusterWallSteps, corridorStep \in {1} :
       args = [wallStep |-> wallStep, corridorStep |-> corridorStep]
  /\ \E S \in SubsetsUpTo(GridPoints(PipeGridW, PipeGridH), MaxPipeTiles) :
       \E f \in [S -> {CORRIDOR, ROOM_ORIGIN}] :
         map = [createGameMap(PipeGridW, PipeGridH, WALL) EXCEPT
                  !.tiles = [x \in DOMAIN @ |-> [y \in DOMAIN @[x] |->
                     IF Point(x, y) \in S THEN f[Point(x, y)] ELSE @[x][y]]]]
  /\ returned = map
  /\ state = Unused /\ twin = Unused
  /\ map0 = map
  /\ pc = "filled"
  /\ clusters = Unused
  /\ stack = Unused /\ links = 0
  /\ points = Unused /\ roomTiles = Unused /\ size = 0 /\ iteration = 0

\* profile(removeIsolatedCorridors)(globalMap)
StageRemove ==
  /\ pc = "filled"
  /\ returned' = removeIsolatedCorridors(map)
  /\ map' = PassOn(map, returned')
  /\ pc' = "removed"
  /\ UNCHANGED <<args, map0, clusters, iteration, mazeVars, points, roomTiles, size,
                 rngVars>>

\* const clusters = profile(findIsolatedClusters)(globalMap)
StageFind ==
  /\ pc = "removed"
  /\ clusters' = findIsolatedClusters(map)
  /\ pc' = "clustered"
  /\ UNCHANGED <<map, args, map0, returned, mazeVars, points, roomTiles, size,
                 iteration, rngVars>>

\* profile(connectClusters)(globalMap, clusters, WALL_STEP, CORRIDOR_STEP)
StageConnect ==
  /\ pc = "clustered"
  /\ \E coins \in [1..MaxPipeTiles -> BOOLEAN] :
       returned' = connectClusters(map, clusters, args.wallStep, args.corridorStep,
                                   coins)
  /\ map' = PassOn(map, returned')
  /\ pc' = "connected"
  /\ UNCHANGED <<args, map0, clusters, iteration, mazeVars, points, roomTiles, size,
                 rngVars>>

\* profile(shrinkMap)(globalMap, CORRIDOR_STEP)
StageShrink ==
  /\ pc = "connected"
  /\ returned' = shrinkMap(map, args.corridorStep)
  /\ map' = PassOn(map, returned')
  /\ pc' = "shrunk"
  /\ UNCHANGED <<args, map0, clusters, iteration, mazeVars, points, roomTiles, size,
                 rngVars>>

\* the export: renderGameMapToImage(globalMap, ...) and JSON.stringify(globalMap)
StageExport ==
  /\ pc = "shrunk"
  /\ pc' = "exported"
  /\ UNCHANGED <<map, args, map0, returned, clusters, iteration, mazeVars, points,
                 roomTiles, size, rngVars>>

NextPipeline == StageRemove \/ StageFind \/ StageConnect \/ StageShrink \/ StageExport

SpecPipeline == InitPipeline /\ [][NextPipeline]_vars

\* C15: the stages of generateMap run in order and each one operates on the
\* grid the stage before it left: after a stage, the grid the next stage (or
\* the export) takes is the grid that stage returned; so the changes of
\* removeIsolatedCorridors and connectClusters are in the grid that is
\* shrunk, and the exported grid is the shrunk one.
C15_StagesChained ==
  pc \in {"removed", "clustered", "connected", "shrunk", "exported"} => map = returned

-----------------------------------------------------------------------------
(* random.ts: SeedableRNG *)

\* this.m - 1, with this.m = 0x80000000; a generator state is in 0..MaxState
MaxState == 2147483647
\* this.a and this.c
Multiplier == 1103515245
Increment == 12345
\* the seed of "const rng = new SeedableRNG(1)"
Seed == 1

\* A binary64 holding a non-negative integer below 2^62 is kept as
\* [h, l]: the integer is h * 2^31 + l with 0 <= l <= MaxState.
Limb == Pow2(12)

\* the exact product a * s of two integers in 0..MaxState, by limbs of 12 bits
ExactProduct(a, s) ==
  LET a0 == a % Limb
      a1 == (a \div Limb) % Limb
      a2 == a \div (Limb * Limb)
      s0 == s % Limb
      s1 == (s \div Limb) % Limb
      s2 == s \div (Limb * Limb)
      c0 == a0 * s0
      c1 == a0 * s1 + a1 * s0 + (c0 \div Limb)
      c2 == a0 * s2 + a1 * s1 + a2 * s0 + (c1 \div Limb)
      c3 == a1 * s2 + a2 * s1 + (c2 \div Limb)
      c4 == a2 * s2 + (c3 \div Limb)
      p0 == c0 % Limb
      p1 == c1 % Limb
      p2 == c2 % Limb
      p3 == c3 % Limb
  IN  [h |-> (p2 \div 128) + p3 * 32 + c4 * 131072,
       l |-> p0 + p1 * Limb + (p2 % 128) * (Limb * Limb)]

\* the exact sum of [h, l] and an integer c in 0..MaxState
ExactSum(v, c) ==
  IF v.l > MaxState - c
    THEN [h |-> v.h + 1, l |-> v.l - (MaxState - c) - 1]
    ELSE [h |-> v.h, l |-> v.l + c]

\* the binary64 nearest to the integer v (ties to even): v has 31 +
\* bitlength(h) bits, of which 53 are kept
Rounded(v) ==
  LET k == IF v.h < Pow2(22) THEN 0 ELSE Log2(v.h) - 21
      unit == Pow2(k)
      r == v.l % unit
      kept == v.l - r
      odd == (v.l \div unit) % 2 = 1
      up == k > 0 /\ (2 * r > unit \/ (2 * r = unit /\ odd))
  IN  IF ~up THEN [h |-> v.h, l |-> kept]
      ELSE IF kept > MaxState - unit THEN [h |-> v.h + 1, l |-> 0]
      ELSE [h |-> v.h, l |-> kept + unit]

\* nextInt: "(this.a * this.state + this.c) % this.m", every operation in
\* binary64; the remainder of a binary64 integer is exact
nextInt(s) == Rounded(ExactSum(Rounded(ExactProduct(Multiplier, s)), Increment)).l

\* mutant: the quotient is taken by this.m / 2
DivisorHalved == MaxState \div 2

\* the divisor of nextFloat, this.m - 1
Divisor == MaxState

\* nextFloat: "this.nextInt() / (this.m - 1)" as the quotient num / den; the
\* binary64 quotient is below 1 exactly when num < den (1 - 2^-31 is a
\* binary64, and rounding is monotonic)
nextFloat(s) == [num |-> nextInt(s), den |-> Divisor]

\* the module is loaded: rng = new SeedableRNG(1)
InitRng ==
  /\ state = Seed
  /\ returned = Unused
  /\ pc = "loaded"
  /\ map = Unused /\ args = Unused /\ map0 = Unused /\ clusters = Unused
  /\ stack = Unused /\ links = 0 /\ twin = Unused
  /\ points = Unused /\ roomTiles = Unused /\ size = 0 /\ iteration = 0

\* a call of random() without arguments
Random ==
  /\ returned' = nextFloat(state)
  /\ state' = nextInt(state)
  /\ pc' = "drawn"
  /\ UNCHANGED <<map, args, map0, clusters, mazeVars, twin, points, roomTiles, size,
                 iteration>>

NextRng == Random

SpecRng == InitRng /\ [][NextRng]_vars

\* C16: every value random() returns is >= 0 and strictly less than 1
C16_UnitInterval ==
  pc = "drawn" => returned.num >= 0 /\ returned.num < returned.den

\* the largest value the generator returns, 2147470080 / 2147483647
C16_Witness == pc = "drawn" /\ returned.num = 2147470080 /\ returned.den = MaxState

-----------------------------------------------------------------------------
(* maze.ts: two runs of generateMaze, each drawing from a seeded generator *)

\* generateMaze starts after 0..MaxPriorDraws draws from the seeded generator
MaxPriorDraws == 2

RECURSIVE StateAfter(_)
StateAfter(n) == IF n = 0 THEN Seed ELSE nextInt(StateAfter(n - 1))

\* "Math.floor(random() * n)" for the generator state s, 1 <= n <= 4: the
\* number of j in 1..n with v * n >= j * (m - 1), v being the next state.
\* m - 1 is prime, so for 0 < v < m - 1 the exact product v * n / (m - 1) is
\* at least 1 / (m - 1) away from every integer, far more than the rounding
\* of the quotient and of the product can move it.
DrawIndex(s, n) ==
  LET v == nextInt(s)
      q == MaxState \div n
      r == MaxState % n
  IN  Cardinality({j \in 1..n : v >= q * j + ((r * j + n - 1) \div n)})

\* one iteration of the while loop of generateMaze for the run
\* [map, stack, state, pc]; the loop exit when the stack is empty
SeededIteration(run, a) ==
  IF Len(run.stack) = 0 THEN [run EXCEPT !.pc = "done"]
  ELSE LET current == run.stack[Len(run.stack)]
           neighbors == getUnvisitedNeighbors(current.x, current.y, run.map,
                                              a.wallStep, {WALL})
       IN  IF Len(neighbors) = 0
             THEN [run EXCEPT !.stack = SubSeq(run.stack, 1, Len(run.stack) - 1)]
             ELSE LET randomNeighbor == neighbors[DrawIndex(run.state, Len(neighbors)) + 1]
                  IN  [map |-> CarveTo(run.map, current, randomNeighbor,
                                       a.wallStep, a.corridorStep),
                       stack |-> Append(run.stack, randomNeighbor),
                       state |-> nextInt(run.state),
                       pc |-> run.pc]

\* mutant: the second run draws from the generator of the first run
TwinSourceShared(own, first) == first

\* the generator state a draw of the second run starts from: its own
TwinSource(own, first) == own

\* both runs are entered with the same arguments and the same generator state
InitSeeded ==
  /\ \E width \in 1..MaxMazeDim, height \in 1..MaxMazeDim,
        wallStep \in MazeWallSteps, corridorStep \in MazeCorridorSteps :
       LET nearestLargerWidth == ((width \div wallStep) + 1) * wallStep + corridorStep
           nearestLargerHeight == ((height \div wallStep) + 1) * wallStep + corridorStep
           start == MazeStart(corridorStep)
       IN  /\ args = [width |-> width, height |-> height,
                      wallStep |-> wallStep, corridorStep |-> corridorStep]
           /\ map = createCorridorRectangle(
                      createGameMap(nearestLargerWidth, nearestLargerHeight, WALL),
                      start.x, start.y, corridorStep, CORRIDOR, Undefined)
           /\ stack = <<start>>
  /\ pc = "carving"
  /\ \E n \in 0..MaxPriorDraws : state = StateAfter(n)
  /\ twin = [map |-> map, stack |-> stack, state |-> state, pc |-> pc]
  /\ links = 0
  /\ map0 = Unused /\ points = Unused /\ roomTiles = Unused /\ clusters = Unused
  /\ returned = Unused
  /\ size = 0 /\ iteration = 0

\* the first run makes one iteration
FirstRunStep ==
  /\ pc = "carving"
  /\ LET run == SeededIteration([map |-> map, stack |-> stack, state |-> state,
                                 pc |-> pc], args)
     IN  /\ map' = run.map /\ stack' = run.stack /\ state' = run.state /\ pc' = run.pc
         /\ links' = IF Len(run.stack) > Len(stack) THEN links + 1 ELSE links
  /\ UNCHANGED <<args, twin, roomVars, clusters, returned>>

\* the second run makes one iteration
TwinRunStep ==
  /\ twin.pc = "carving"
  /\ twin' = SeededIteration([twin EXCEPT !.state = TwinSource(twin.state, state)],
                             args)
  /\ UNCHANGED <<map, args, pc, mazeVars, state, roomVars, clusters, returned>>

NextSeeded == FirstRunStep \/ TwinRunStep

SpecSeeded == InitSeeded /\ [][NextSeeded]_vars

-----------------------------------------------------------------------------
(* Claims about one iteration of connectClusters *)

\* C18: in every repair iteration the current cluster is the first of the
\* remaining list (it is the one removed), and the corridor is carved between
\* the pair (s, e) of least Euclidean distance with s an intersection of the
\* current cluster and e an intersection of another remaining cluster, the
\* first such pair in scan order among those of least distance.
C18_NearestPair ==
  [][(pc = "connecting" /\ Len(clusters) > 1) =>
       LET cands == NearestCandidates(map, clusters, args.wallStep, args.corridorStep)
       IN  /\ clusters' = Tail(clusters)
           /\ \E c \in cands :
                /\ \A d \in cands :
                     Distance2(c.start, c.end) <= Distance2(d.start, d.end)
                /\ \A d \in cands \ {c} :
                     Distance2(c.start, c.end) = Distance2(d.start, d.end)
                       => VisitedBefore(c, d)
                /\ \E horizontalFirst \in BOOLEAN :
                     map' = constructCorridor(map, c.start, c.end, args.corridorStep,
                                              horizontalFirst)]_vars

\* C19: cluster repair changes only WALL tiles, and only to CORRIDOR: a tile
\* that was not WALL when connectClusters was entered keeps its type, a WALL
\* tile is WALL or CORRIDOR afterwards, and no edge entry is changed.
C19_Frame ==
  /\ DOMAIN map.tiles = DOMAIN map0.tiles
  /\ \A p \in Points(map0) :
       /\ TileAt(map0, p) # WALL => TileAt(map, p) = TileAt(map0, p)
       /\ TileAt(map0, p) = WALL => TileAt(map, p) \in {WALL, CORRIDOR}
  /\ map.edges = map0.edges

\* a corridor has been carved from or to a room origin, which is an
\* intersection of its cluster
C19_Witness ==
  /\ pc = "done"
  /\ \E q \in Points(map0), p \in Points(map0) :
       /\ TileAt(map0, q) = ROOM_ORIGIN
       /\ q.x >= args.wallStep /\ q.y >= args.wallStep
       /\ Adjacent(p, q)
       /\ TileAt(map0, p) = WALL /\ TileAt(map, p) = CORRIDOR

-----------------------------------------------------------------------------
(* corridors.ts: createSecretCorridors, generateSecretCorridorsFromRoomOrigins *)

\* generateSecretCorridorsFromRoomOrigins is called on grids of SecretGridW x
\* SecretGridH tiles, at most MaxSecretTiles of them not walls
SecretGridW == 3
SecretGridH == 3
MaxSecretTiles == 2

\* Object.values(TileType)
ALL_TILE_TYPES ==
  {CORRIDOR, SECRET_CORRIDOR, ROOM, ROOM_ORIGIN, WALL, TRAP_PITFALL, "SPIKES", "LAVA"}

VERTICAL_DIRECTION_TYPES == {TOP, BOTTOM}

Abs(n) == IF n < 0 THEN -n ELSE n

\* the body of "for (const neighbor of neighbors)" of createSecretCorridors
SecretCorridorTo(m, centralPoint, neighbor, corridorStep) ==
  LET deltaX == neighbor.x - centralPoint.x
      deltaY == neighbor.y - centralPoint.y
      isHorizontal == deltaY = 0
      isVertical == ~isHorizontal
      corridorWidth == Abs(deltaX) + (IF isVertical THEN corridorStep ELSE 0)
      corridorHeight == Abs(deltaY) + (IF isHorizontal THEN corridorStep ELSE 0)
      startX == centralPoint.x + (IF deltaX >= 0 THEN 0 ELSE -corridorWidth + 1)
      startY == centralPoint.y + (IF deltaY >= 0 THEN 0 ELSE -corridorHeight + 1)
      carved == createRectangleInMap(m, startX, startY, corridorWidth, corridorHeight,
                                     SECRET_CORRIDOR, WALL)
  IN  createEdgesBetweenTiles(carved,
        [roomTiles |-> getRectanglePoints(carved, startX, startY,
                                          corridorWidth, corridorHeight),
         tileTypes1 |-> {SECRET_CORRIDOR},
         tileTypes2 |-> {CORRIDOR, ROOM, ROOM_ORIGIN},
         innerEdgeType |-> HIDDEN_DOOR, outerEdgeType |-> Undefined,
         allowedDirections |-> IF isHorizontal THEN HORIZONTAL_DIRECTION_TYPES
                                               ELSE VERTICAL_DIRECTION_TYPES,
         innerEdges |-> TRUE, outerEdges |-> TRUE])

RECURSIVE SecretCorridorsFrom(_, _, _, _, _)
SecretCorridorsFrom(m, centralPoint, neighbors, corridorStep, i) ==
  IF i > Len(neighbors) THEN m
  ELSE SecretCorridorsFrom(SecretCorridorTo(m, centralPoint, neighbors[i], corridorStep),
                           centralPoint, neighbors, corridorStep, i + 1)

createSecretCorridors(m, centralPoint, neighbors, corridorStep) ==
  SecretCorridorsFrom(m, centralPoint, neighbors, corridorStep, 1)

\* mutant: only the neighbours that are still walls are taken
SecretNeighborTypesWall == {WALL}

\* the unvisitedTypes argument of the call of getUnvisitedNeighbors
SecretNeighborTypes == ALL_TILE_TYPES

RECURSIVE SecretFromOrigins(_, _, _)
\* "roomOrigins.forEach(...)": the origins not yet handled, in the order of
\* getTiles (x ascending, then y ascending)
SecretFromOrigins(m, roomOrigins, wallStep) ==
  IF roomOrigins = {} THEN m
  ELSE LET o == FirstTile(roomOrigins)
       IN  SecretFromOrigins(
             createSecretCorridors(m, o,
               getUnvisitedNeighbors(o.x, o.y, m, wallStep, SecretNeighborTypes), 1),
             roomOrigins \ {o}, wallStep)

generateSecretCorridorsFromRoomOrigins(m, wallStep) ==
  SecretFromOrigins(m, TilesOfTypes(m, {ROOM_ORIGIN}), wallStep)

SecretWallSteps == {1, 2}

\* the grid with the room-wall edges growRoom leaves around one-tile rooms
WithOriginWalls(m) ==
  SetRoomWalls(m, SelectSeq(getRectanglePoints(m, 0, 0, Width(m), Height(m)),
                            LAMBDA p : TileAt(m, p) = ROOM_ORIGIN))

\* generateSecretCorridorsFromRoomOrigins(map, wallStep) is entered
InitSecret ==
  /\ \E wallStep \in SecretWallSteps : args = [wallStep |-> wallStep]
  /\ \E S \in SubsetsUpTo(GridPoints(SecretGridW, SecretGridH), MaxSecretTiles) :
       \E f \in [S -> {ROOM_ORIGIN, CORRIDOR}] :
         LET grid == [createGameMap(SecretGridW, SecretGridH, WALL) EXCEPT
                        !.tiles = [x \in DOMAIN @ |-> [y \in DOMAIN @[x] |->
                           IF Point(x, y) \in S THEN f[Point(x, y)] ELSE @[x][y]]]]
         IN  map0 \in {grid, WithOriginWalls(grid)}
  /\ map = map0
  /\ pc = "entry"
  /\ stack = Unused /\ links = 0 /\ clusters = Unused /\ returned = Unused
  /\ state = Unused /\ twin = Unused
  /\ points = Unused /\ roomTiles = Unused /\ size = 0 /\ iteration = 0

\* generateSecretCorridorsFromRoomOrigins, whole; map is the returned grid
GenerateSecret ==
  /\ pc = "entry"
  /\ map' = generateSecretCorridorsFromRoomOrigins(map, args.wallStep)
  /\ pc' = "done"
  /\ UNCHANGED <<args, map0, notTiles>>

NextSecret == GenerateSecret

SpecSecret == InitSecret /\ [][NextSecret]_vars

\* the tiles of the strips from the room origins of m toward their in-bounds
\* lattice neighbours of the given types: the origin and the wallStep - 1
\* tiles after it on the way to the neighbour
SecretStrips(m, wallStep, types) ==
  {p \in Points(m) :
     \E o \in TilesOfTypes(m, {ROOM_ORIGIN}), d \in {<<0, -1>>, <<1, 0>>, <<0, 1>>, <<-1, 0>>} :
       LET n == Point(o.x + wallStep * d[1], o.y + wallStep * d[2])
       IN  /\ isWithinBounds(n.x, n.y, m)
           /\ TileAt(m, n) \in types
           /\ \E k \in 0..(wallStep - 1) : p = Point(o.x + k * d[1], o.y + k * d[2])}

\* C20 as claimed: a strip is carved from a room origin only toward the
\* in-bounds lattice neighbours that are still WALL; every tile the call
\* changes lies on such a strip.
C20_Claimed ==
  pc = "done" =>
    LET strips == SecretStrips(map0, args.wallStep, {WALL})
    IN  \A p \in Points(map0) : TileAt(map, p) # TileAt(map0, p) => p \in strips

\* C20: a strip is carved from a room origin toward every in-bounds lattice
\* neighbour, whatever its type: the tiles changed are the WALL tiles of
\* these strips, and they become SECRET_CORRIDOR.
C20_StripsTowardAll ==
  pc = "done" =>
    LET strips == SecretStrips(map0, args.wallStep, ALL_TILE_TYPES)
    IN  \A p \in Points(map0) :
          /\ TileAt(map, p) # TileAt(map0, p) <=> (TileAt(map0, p) = WALL /\ p \in strips)
          /\ TileAt(map, p) # TileAt(map0, p) => TileAt(map, p) = SECRET_CORRIDOR

\* a strip has been carved toward a corridor: the wall between a room origin
\* and the corridor two tiles east of it has become a secret corridor
C20_Witness ==
  /\ pc = "done" /\ args.wallStep = 2
  /\ \E o \in Points(map0) :
       /\ o.x + 2 < Width(map0)
       /\ TileAt(map0, o) = ROOM_ORIGIN
       /\ TileAt(map0, Point(o.x + 1, o.y)) = WALL
       /\ TileAt(map0, Point(o.x + 2, o.y)) = CORRIDOR
       /\ TileAt(map, Point(o.x + 1, o.y)) = SECRET_CORRIDOR

-----------------------------------------------------------------------------
(* Claims about the edges written by createSecretCorridors *)

\* the point on the given side of p: the neighbor for which determineDirection
\* yields that side
NeighborOn(p, direction) ==
  CASE direction = TOP -> Point(p.x, p.y - 1)
    [] direction = RIGHT -> Point(p.x + 1, p.y)
    [] direction = BOTTOM -> Point(p.x, p.y + 1)
    [] direction = LEFT -> Point(p.x - 1, p.y)

\* the tiles of the strips that run along the axis of the given side
StripsAlong(m, wallStep, direction) ==
  {p \in Points(m) :
     \E o \in TilesOfTypes(m, {ROOM_ORIGIN}), sign \in {-1, 1} :
       LET dx == IF direction \in HORIZONTAL_DIRECTION_TYPES THEN sign ELSE 0
           dy == IF direction \in HORIZONTAL_DIRECTION_TYPES THEN 0 ELSE sign
       IN  /\ isWithinBounds(o.x + wallStep * dx, o.y + wallStep * dy, m)
           /\ \E k \in 0..(wallStep - 1) : p = Point(o.x + k * dx, o.y + k * dy)}

-----------------------------------------------------------------------------
(* Claims about the doors and the edges of a grown room *)

ConfigOf(direction) ==
  EDGE_CONFIGS[CHOOSE c \in DOMAIN EDGE_CONFIGS : EDGE_CONFIGS[c].direction = direction]

\* the directions EDGE_CONFIGS.forEach has handled before the given one
DirectionsBefore(direction) ==
  {EDGE_CONFIGS[c].direction : c \in
     {c \in DOMAIN EDGE_CONFIGS :
        \E later \in DOMAIN EDGE_CONFIGS :
          c < later /\ EDGE_CONFIGS[later].direction = direction}}

IndexIn(s, e) == CHOOSE i \in DOMAIN s : s[i] = e

\* the grown tiles that had a room-wall or embrasure edge on side d when the
\* doors were added, face a CORRIDOR there and lie on the origin's side
DoorQualifying(d) ==
  {p \in Range(roomTiles) :
     LET n == NeighborOn(p, d)
     IN  /\ map.edges[p.x][p.y][d] \in {ROOM_WALL, EMBRASURE, REINFORCED_DOOR}
         /\ isWithinBounds(n.x, n.y, map)
         /\ TileAt(map, n) = CORRIDOR
         /\ ConfigOriginCompare(ConfigOf(d), ConfigValue(ConfigOf(d), p),
                                ConfigValue(ConfigOf(d), Point(args.x, args.y)))}

\* of a set of grown tiles: the ones farthest from the origin along the axis
\* of d, and of these the first in the room-tile list
FarthestFirst(Q, d) ==
  LET far == {p \in Q : \A q \in Q :
                ~ConfigCompare(ConfigOf(d), ConfigValue(ConfigOf(d), q), p)}
  IN  {p \in far : \A q \in far : IndexIn(roomTiles, p) <= IndexIn(roomTiles, q)}

C23_RoomEdges ==
  pc = "done" =>
    \A p \in NewRoomTiles, d \in ALL_DIRECTIONS_TYPES :
      LET n == NeighborOn(p, d)
          edge == map.edges[p.x][p.y][d]
      IN  isWithinBounds(n.x, n.y, map) =>
            /\ TileAt(map, n) = WALL => edge = ROOM_WALL
            /\ TileAt(map, n) = CORRIDOR => edge \in {EMBRASURE, REINFORCED_DOOR}
            /\ TileAt(map, n) \in roomTileTypes => edge = Undefined

Opposite(direction) ==
  CASE direction = TOP -> BOTTOM
    [] direction = BOTTOM -> TOP
    [] direction = LEFT -> RIGHT
    [] direction = RIGHT -> LEFT

\* C24: both views of a boundary agree: when room growth has set an edge on
\* one side of a cell, the neighbouring cell across that boundary holds the
\* same edge type on its opposite side.
C24_BothViews ==
  pc = "done" =>
    \A p \in Points(map), d \in ALL_DIRECTIONS_TYPES :
      LET n == NeighborOn(p, d)
      IN  (map.edges[p.x][p.y][d] # Undefined /\ isWithinBounds(n.x, n.y, map))
            => map.edges[n.x][n.y][Opposite(d)] = map.edges[p.x][p.y][d]

-----------------------------------------------------------------------------
(* ladders.ts: placeLadders *)

\* placeLadders is called on grids of LadderGridW x LadderGridH tiles of which
\* at most MaxLadderTiles are secret corridors, with a ladderCount of at most
\* MaxLadderCount
LadderGridW == 4
LadderGridH == 3
MaxLadderTiles == 2
MaxLadderCount == 2

LADDER_DOWN == "LADDER_DOWN"

\* "Collect all wall tiles adjacent to secret corridors and having 3 wall
\* neighbors", in push order: x outer, y inner
potentialLadderPoints(m) ==
  LET all == getRectanglePoints(m, 0, 0, Width(m), Height(m))
  IN  SelectSeq(all, LAMBDA p :
        /\ TileAt(m, p) = WALL
        /\ isTileAdjacentToType(p, m, SECRET_CORRIDOR)
        /\ Len(SelectSeq(getNeighbors(p.x, p.y, m),
                         LAMBDA n : TileAt(m, n) = WALL)) >= 3)

\* the side of (x, y) on which the first secret-corridor neighbour lies
LadderDoorSide(x, y, n) ==
  IF n.x < x THEN LEFT
  ELSE IF n.x > x THEN RIGHT
  ELSE IF n.y < y THEN TOP
  ELSE BOTTOM

\* the body of the placing loop for one point
PlaceLadder(m, p) ==
  LET placed == SetTile(m, p.x, p.y, LADDER_DOWN)
      secretCorridorNeighbors ==
        SelectSeq(getNeighbors(p.x, p.y, placed),
                  LAMBDA n : TileAt(placed, n) = SECRET_CORRIDOR)
  IN  IF Len(secretCorridorNeighbors) > 0
        THEN [placed EXCEPT
                !.edges[p.x][p.y][LadderDoorSide(p.x, p.y, secretCorridorNeighbors[1])]
                   = HIDDEN_DOOR]
        ELSE placed

\* placeLadders(map, ladderCount) is entered
InitLadders ==
  /\ map0 \in GridsOfTypes(LadderGridW, LadderGridH, MaxLadderTiles, {SECRET_CORRIDOR})
  /\ \E ladderCount \in 0..MaxLadderCount : args = [ladderCount |-> ladderCount]
  /\ map = map0
  /\ pc = "entry"
  /\ points = Unused /\ roomTiles = Unused /\ size = 0 /\ iteration = 0
  /\ stack = Unused /\ links = 0 /\ clusters = Unused /\ returned = Unused
  /\ state = Unused /\ twin = Unused

\* the collection and the shuffle
LaddersCollect ==
  /\ pc = "entry"
  /\ LET collected == potentialLadderPoints(map)
     IN  \E draws \in DrawSequences(Len(collected)) :
           points' = shuffle(collected, draws)
  /\ pc' = "placing"
  /\ UNCHANGED <<map, args, map0, mazeVars, roomTiles, size, iteration, clusters,
                 returned, rngVars>>

\* one iteration of "for (let i = 0; i < ladderCount; i++)" on a point
LaddersPlace ==
  /\ pc = "placing"
  /\ iteration < args.ladderCount
  /\ iteration < Len(points)
  /\ map' = PlaceLadder(map, points[iteration + 1])
  /\ iteration' = iteration + 1
  /\ UNCHANGED <<args, pc, map0, mazeVars, points, roomTiles, size, clusters,
                 returned, rngVars>>

\* shuffledLadderPoints[i] is undefined: destructuring it throws a TypeError;
\* the ladders placed so far stay in the caller's map
LaddersThrow ==
  /\ pc = "placing"
  /\ iteration < args.ladderCount
  /\ iteration >= Len(points)
  /\ pc' = "threw"
  /\ UNCHANGED <<map, args, map0, mazeVars, roomVars, clusters, returned, rngVars>>

LaddersReturn ==
  /\ pc = "placing"
  /\ iteration >= args.ladderCount
  /\ pc' = "done"
  /\ UNCHANGED <<map, args, map0, mazeVars, roomVars, clusters, returned, rngVars>>

NextLadders == LaddersCollect \/ LaddersPlace \/ LaddersThrow \/ LaddersReturn

SpecLadders == InitLadders /\ [][NextLadders]_vars

\* the tiles that hold a ladder
LadderTiles == TilesOfTypes(map, {LADDER_DOWN})

\* C25: placeLadders completes normally also when fewer tiles are eligible
\* than ladderCount asks for, none included, and has then converted
\* min(ladderCount, c) tiles, c being the number of eligible tiles.
C25_Completes ==
  /\ pc # "threw"
  /\ pc = "done" =>
       Cardinality(LadderTiles)
         = Min(args.ladderCount, Len(potentialLadderPoints(map0)))

-----------------------------------------------------------------------------
(* More claims about generateSecretCorridorsFromRoomOrigins *)

\* C27: secret-corridor generation only adds HIDDEN_DOOR entries: every edge
\* entry present on any tile before the call is still present with the same
\* type afterwards, those of room and room-origin tiles inside a strip
\* rectangle included.
C27_EdgesKept ==
  pc = "done" =>
    \A p \in Points(map0), d \in ALL_DIRECTIONS_TYPES :
      map0.edges[p.x][p.y][d] # Undefined
        => map.edges[p.x][p.y][d] = map0.edges[p.x][p.y][d]

-----------------------------------------------------------------------------
(* slides.ts: placeSlideInRoom *)

\* placeSlideInRoom is called on grids of SlideGridW x SlideGridH tiles with a
\* room of at most MaxSlideTiles tiles
SlideGridW == 3
SlideGridH == 2
MaxSlideTiles == 3

SLIDE == "SLIDE"
TRAP_SLIDE == "TRAP_SLIDE"

\* common.ts: some tile at most `distance` columns and rows away, the tile
\* itself included, has an edge of the type
isTileNearEdgeType(tile, m, edgeType, distance) ==
  \E q \in Points(m) :
    /\ Abs(q.x - tile.x) <= distance
    /\ Abs(q.y - tile.y) <= distance
    /\ tileHasEdgeType(m, q.x, q.y, edgeType)

\* mutant: every tile of the room is a candidate
potentialSlideTilesAll(m, tiles) == tiles

\* the filter over roomTiles
potentialSlideTiles(m, tiles) ==
  SelectSeq(tiles, LAMBDA tile :
    /\ Len(SelectSeq(getNeighbors(tile.x, tile.y, m),
                     LAMBDA neighbor : TileAt(m, neighbor) = WALL)) >= 2
    /\ ~isTileNearEdgeType(tile, m, REINFORCED_DOOR, 1)
    /\ ~isTileNearEdgeType(tile, m, EMBRASURE, 1)
    /\ ~isTileAdjacentToType(tile, m, SECRET_CORRIDOR))

\* the writes on the shuffled candidates: [0] becomes SLIDE, then [1], when
\* there is one, TRAP_SLIDE
SlidesOn(m, shuffled) ==
  IF Len(shuffled) = 0 THEN m
  ELSE LET withSlide == SetTile(m, shuffled[1].x, shuffled[1].y, SLIDE)
       IN  IF Len(shuffled) >= 2
             THEN SetTile(withSlide, shuffled[2].x, shuffled[2].y, TRAP_SLIDE)
             ELSE withSlide

\* the edges an earlier stage may have left on the first tile of the room
SlideDoors == {<<RIGHT, REINFORCED_DOOR>>, <<TOP, EMBRASURE>>}

\* placeSlideInRoom(map, roomTiles) is entered: the room's first tile is its
\* origin, a secret corridor may lie beside the room
InitSlide ==
  /\ \E S \in SubsetsUpTo(GridPoints(SlideGridW, SlideGridH), MaxSlideTiles) :
       LET walls == createGameMap(SlideGridW, SlideGridH, WALL)
           tiles == SelectSeq(getRectanglePoints(walls, 0, 0, SlideGridW, SlideGridH),
                              LAMBDA p : p \in S)
           room == [walls EXCEPT !.tiles =
                      [x \in DOMAIN @ |-> [y \in DOMAIN @[x] |->
                         IF Point(x, y) \notin S THEN WALL
                         ELSE IF Point(x, y) = tiles[1] THEN ROOM_ORIGIN ELSE ROOM]]]
       IN  /\ roomTiles = tiles
           /\ \E secret \in SubsetsUpTo(GridPoints(SlideGridW, SlideGridH) \ S, 1) :
                LET grid == [room EXCEPT !.tiles =
                               [x \in DOMAIN @ |-> [y \in DOMAIN @[x] |->
                                  IF Point(x, y) \in secret THEN SECRET_CORRIDOR
                                  ELSE @[x][y]]]]
                IN  \/ map0 = grid
                    \/ /\ S # {}
                       /\ \E door \in SlideDoors :
                            map0 = SetEdge(grid, tiles[1], door[1], door[2])
  /\ map = map0
  /\ pc = "entry"
  /\ args = Unused
  /\ points = Unused /\ size = 0 /\ iteration = 0
  /\ stack = Unused /\ links = 0 /\ clusters = Unused /\ returned = Unused
  /\ state = Unused /\ twin = Unused

\* placeSlideInRoom, whole: filter, shuffle, place
PlaceSlide ==
  /\ pc = "entry"
  /\ LET candidates == potentialSlideTiles(map, roomTiles)
     IN  \E draws \in DrawSequences(Len(candidates)) :
           map' = SlidesOn(map, shuffle(candidates, draws))
  /\ pc' = "done"
  /\ UNCHANGED <<args, map0, notTiles>>

NextSlide == PlaceSlide

SpecSlide == InitSlide /\ [][NextSlide]_vars

\* the candidate tiles of the room in the grid given to placeSlideInRoom
SlideCandidates ==
  {p \in Range(roomTiles) :
     /\ Cardinality({q \in Points(map0) : Adjacent(p, q) /\ TileAt(map0, q) = WALL}) >= 2
     /\ ~isTileNearEdgeType(p, map0, REINFORCED_DOOR, 1)
     /\ ~isTileNearEdgeType(p, map0, EMBRASURE, 1)
     /\ \A q \in Points(map0) : Adjacent(p, q) => TileAt(map0, q) # SECRET_CORRIDOR}

\* C26: placeSlideInRoom changes at most two tiles, both candidates of the
\* room: exactly one becomes SLIDE when there is a candidate, exactly one
\* other becomes TRAP_SLIDE when there are two or more, and the grid is
\* unchanged when there is none.
C26_Slides ==
  pc = "done" =>
    /\ ChangedTiles \subseteq SlideCandidates
    /\ Cardinality(ChangedTiles) = Min(2, Cardinality(SlideCandidates))
    /\ Cardinality({p \in ChangedTiles : TileAt(map, p) = SLIDE})
         = Min(1, Cardinality(SlideCandidates))
    /\ Cardinality({p \in ChangedTiles : TileAt(map, p) = TRAP_SLIDE})
         = Min(1, Max(Cardinality(SlideCandidates) - 1, 0))
    /\ map.edges = map0.edges

\* of three candidates one became the slide, one the decoy, one stayed
C26_Witness ==
  /\ pc = "done"
  /\ Cardinality(SlideCandidates) = 3
  /\ Cardinality(ChangedTiles) = 2
  /\ \E p \in SlideCandidates : TileAt(map, p) = ROOM_ORIGIN

-----------------------------------------------------------------------------
(* Termination of generateMaze *)

\* p is a point of the lattice (start + i * wallStep, start + j * wallStep)
OnLattice(p) ==
  LET start == MazeStart(args.corridorStep)
  IN  /\ p.x >= start.x /\ (p.x - start.x) % args.wallStep = 0
      /\ p.y >= start.y /\ (p.y - start.y) % args.wallStep = 0

\* every point on the stack s is a CORRIDOR lattice point of m and is there
\* once, and the call has returned only with the stack empty
StackSound(m, s, p) ==
  /\ \A i \in DOMAIN s : OnLattice(s[i]) /\ TileAt(m, s[i]) = CORRIDOR
  /\ Cardinality(Range(s)) = Len(s)
  /\ p = "done" => s = <<>>

\* C28: the carving loop terminates with an empty stack.  After every step
\* each point on the stack is a CORRIDOR lattice point and is there once (the
\* stack starts with the carved start alone).  A step either pushes a lattice
\* point that was WALL, hence never pushed before, while no tile turns into
\* WALL, or it pops one point and leaves the grid alone.  So a push lowers the
\* number of WALL lattice points and a pop the stack height: twice the first
\* plus the second falls at every step, and the call returns only with the
\* stack empty.
C28_Terminates ==
  [][/\ StackSound(map', stack', pc')
     /\ \/ /\ Len(stack') = Len(stack) + 1
           /\ SubSeq(stack', 1, Len(stack)) = stack
           /\ TileAt(map, stack'[Len(stack')]) = WALL
           /\ \A p \in Points(map) : TileAt(map', p) = WALL => TileAt(map, p) = WALL
        \/ /\ Len(stack') = Len(stack) - 1
           /\ stack' = SubSeq(stack, 1, Len(stack) - 1)
           /\ map' = map
        \/ /\ stack' = stack
           /\ map' = map]_vars

\* a maze whose corridors are wider than the lattice is fine has been carved
\* and returned
C28_Witness ==
  /\ pc = "done"
  /\ args.corridorStep > args.wallStep
  /\ links >= 2
  /\ stack = <<>>

-----------------------------------------------------------------------------
(* rooms.ts: generateRoomsAtIntersections *)

\* generateRoomsAtIntersections is called with wallStep 1 and corridorStep 1
\* on mazes of RoomsGridW x RoomsGridH tiles, with rooms of at most
\* MaxRoomsSize tiles.  The grid has one row of intersections that is not
\* within wallStep + corridorStep of the top or the bottom border
RoomsGridW == 10
RoomsGridH == 2 * (1 + 1) + 3
MaxRoomsSize == 2

getPossibleIntersections(m, wallStep) ==
  {p \in Points(m) : /\ p.x < Width(m) - 1 /\ p.x % wallStep = 0
                     /\ p.y < Height(m) - 1 /\ p.y % wallStep = 0}

\* p comes before q in the scan "x outer, y inner"
ScannedBefore(p, q) == p.x < q.x \/ (p.x = q.x /\ p.y < q.y)

\* the first tile of least distance in scan order (the test is "<"), the
\* start tile ignored; Null when there is none
findNearestTile(m, startX, startY, targetType) ==
  LET start == Point(startX, startY)
      targets == TilesOfTypes(m, {targetType}) \ {start}
  IN  IF targets = {} THEN Null
      ELSE CHOOSE p \in targets :
             \A q \in targets \ {p} :
               \/ Distance2(start, p) < Distance2(start, q)
               \/ Distance2(start, p) = Distance2(start, q) /\ ScannedBefore(p, q)

\* mutant: a point at exactly the distance is not near the border
isWithinDistanceFromBorderStrict(m, point, distance) ==
  LET maxX == Width(m) - 1
      maxY == Height(m) - 1
  IN  \/ point.x < distance \/ point.y < distance
      \/ point.x > maxX - distance \/ point.y > maxY - distance

isWithinDistanceFromBorder(m, point, distance) ==
  LET maxX == Width(m) - 1
      maxY == Height(m) - 1
  IN  \/ point.x <= distance \/ point.y <= distance
      \/ point.x >= maxX - distance \/ point.y >= maxY - distance

\* the condition under which a room is grown at the intersection;
\* getDistance(a, b) > n is compared on the squares
RoomFits(m, intersection, wallStep, corridorStep) ==
  LET nearestRoomOrigin == findNearestTile(m, intersection.x, intersection.y, ROOM_ORIGIN)
      least == 2 * wallStep + corridorStep - 1
  IN  /\ ~isWithinDistanceFromBorder(m, intersection, wallStep + corridorStep)
      /\ IF nearestRoomOrigin = Null THEN TRUE
         ELSE Distance2(intersection, nearestRoomOrigin) > least * least

RECURSIVE GrowOutcomes(_, _, _, _, _, _)
\* the growth loop of growRoom for every sequence of samples: the pairs of
\* the grown map and the room-tile list with which the loop can end.  pts is
\* the set of points in the list; a point that is in the list twice is
\* converted at most once, its second draw changes nothing
GrowOutcomes(m, pts, tiles, x, y, a) ==
  IF pts = {} \/ Len(tiles) >= a.maxSize THEN {<<m, tiles>>}
  ELSE UNION {
         LET grown == GrowTile(m, current, x, y, a.maxRadius)
         IN  IF grown # m
               THEN GrowOutcomes(grown,
                      (pts \ {current}) \cup
                        Range(getUnvisitedNeighbors(current.x, current.y, grown, 1,
                                                    overridableTileTypes)),
                      Append(tiles, current), x, y, a)
               ELSE GrowOutcomes(m, pts \ {current}, tiles, x, y, a)
         : current \in pts}

\* the maps growRoom(m, x, y, maxSize, maxRadius) can return; Null for a throw
growRoom(m, x, y, maxSize, maxRadius) ==
  IF ReturnsEarly(maxSize) THEN {m}
  ELSE {FinishRoom(o[1], o[2], x, y) :
          o \in GrowOutcomes(m, {Point(x, y)}, <<>>, x, y,
                             [maxSize |-> maxSize, maxRadius |-> maxRadius])}

\* the intersections that can be popped next.  The shuffled list is any
\* permutation in which the intersections near the border, whose iteration
\* changes nothing but the list, are popped first, in scan order
NextIntersections(m, pts, distance) ==
  LET border == {p \in pts : isWithinDistanceFromBorder(m, p, distance)}
  IN  IF border = {} THEN pts
      ELSE {CHOOSE p \in border : \A q \in border \ {p} : ScannedBefore(p, q)}

\* the mazes: no corridor, a corridor along the middle row, along two columns
RoomsMazes ==
  LET walls == createGameMap(RoomsGridW, RoomsGridH, WALL)
  IN  { walls,
        createRectangleInMap(walls, 0, RoomsGridH \div 2, RoomsGridW, 1, CORRIDOR, WALL),
        createRectangleInMap(
          createRectangleInMap(walls, 3, 0, 1, RoomsGridH, CORRIDOR, WALL),
          RoomsGridW - 4, 0, 1, RoomsGridH, CORRIDOR, WALL) }

\* generateRoomsAtIntersections is entered on a maze without rooms: the clone
\* is made and the intersections are collected and shuffled
InitRooms ==
  /\ map0 \in RoomsMazes
  /\ map = map0
  /\ \E roomMaxRadius \in {0, 1} :
       args = [wallStep |-> 1, corridorStep |-> 1, roomMaxRadius |-> roomMaxRadius]
  /\ points = getPossibleIntersections(map0, 1)
  /\ pc = "rooms"
  /\ roomTiles = Unused /\ size = 0 /\ iteration = 0
  /\ stack = Unused /\ links = 0 /\ clusters = Unused /\ returned = Unused
  /\ state = Unused /\ twin = Unused

\* one iteration of the while loop on an intersection that gets no room
RoomsSkip ==
  /\ pc = "rooms"
  /\ \E intersection \in NextIntersections(map, points, args.wallStep + args.corridorStep) :
       /\ ~RoomFits(map, intersection, args.wallStep, args.corridorStep)
       /\ points' = points \ {intersection}
  /\ UNCHANGED <<map, args, pc, map0, mazeVars, roomTiles, size, iteration, clusters,
                 returned, rngVars>>

\* one iteration on an intersection that gets a room of the drawn size
RoomsGrow ==
  /\ pc = "rooms"
  /\ \E intersection \in NextIntersections(map, points, args.wallStep + args.corridorStep),
        currentRoomSize \in 0..MaxRoomsSize :
       /\ RoomFits(map, intersection, args.wallStep, args.corridorStep)
       /\ points' = points \ {intersection}
       /\ \E result \in growRoom(map, intersection.x, intersection.y,
                                 currentRoomSize, args.roomMaxRadius) :
            IF result = Null
              THEN pc' = "threw" /\ UNCHANGED map
              ELSE pc' = pc /\ map' = result
  /\ UNCHANGED <<args, map0, mazeVars, roomTiles, size, iteration, clusters,
                 returned, rngVars>>

RoomsReturn ==
  /\ pc = "rooms"
  /\ points = {}
  /\ pc' = "done"
  /\ UNCHANGED <<map, args, map0, mazeVars, points, roomTiles, size, iteration,
                 clusters, returned, rngVars>>

NextRooms == RoomsSkip \/ RoomsGrow \/ RoomsReturn

SpecRooms == InitRooms /\ [][NextRooms]_vars

\* C29: during and after generateRoomsAtIntersections on a maze without rooms, every
\* ROOM_ORIGIN is farther than wallStep + corridorStep from each of the four
\* borders, and any two ROOM_ORIGIN tiles are more than
\* 2 * wallStep + corridorStep - 1 apart, in whatever order the
\* intersections were visited.
C29_OriginsApart ==
  pc \in {"rooms", "done"} =>
    LET origins == TilesOfTypes(map, {ROOM_ORIGIN})
        distance == args.wallStep + args.corridorStep
        least == 2 * args.wallStep + args.corridorStep - 1
    IN  /\ \A o \in origins :
             /\ o.x > distance /\ o.y > distance
             /\ Width(map) - 1 - o.x > distance
             /\ Height(map) - 1 - o.y > distance
        /\ \A o1, o2 \in origins : o1 # o2 => Distance2(o1, o2) > least * least

\* two rooms stand, three tiles apart
C29_Witness ==
  /\ pc = "done"
  /\ \E o1, o2 \in TilesOfTypes(map, {ROOM_ORIGIN}) : Distance2(o1, o2) = 9
  /\ TilesOfTypes(map, {ROOM}) # {}

-----------------------------------------------------------------------------
(* Connectedness of the tiles the growth loop of growRoom converts *)

\* C30: every tile the growth loop converts is 4-connected to the seed
\* through tiles the same call converted: the first converted tile is the
\* seed, every later one is 4-adjacent to a tile converted before it, and no
\* tile is converted when the seed is neither WALL nor CORRIDOR or lies
\* outside maxRadius.
C30_GrownConnected ==
  pc \in {"growing", "done"} =>
    LET seed == Point(args.x, args.y)
    IN  /\ \A i \in DOMAIN roomTiles :
             IF i = 1 THEN roomTiles[i] = seed
             ELSE \E j \in 1..(i - 1) : Adjacent(roomTiles[j], roomTiles[i])
        /\ (\/ TileAt(map0, seed) \notin overridableTileTypes
            \/ ~WithinDistance(seed, seed, args.maxRadius))
             => roomTiles = <<>>

\* a second tile was converted beside the seed, which was a corridor
C30_Witness ==
  /\ pc = "done"
  /\ Len(roomTiles) = 2
  /\ TileAt(map0, Point(args.x, args.y)) = CORRIDOR
  /\ Adjacent(roomTiles[1], roomTiles[2])
====
